---- MODULE Spec2Model ----
(***************************************************************************)
(* Turn pipeline of the grid roguelike: the entity store's event queue,    *)
(* the Combat-State, Movement, Combat, Inventory and AI systems, and the   *)
(* per-turn schedule of PlayScene._process_turn.                           *)
(*                                                                         *)
(* Every system is an operator from a simulation record to a simulation    *)
(* record, so that a whole turn is their composition; the actions apply    *)
(* one system each.  The record's fields are the variables below.          *)
(***************************************************************************)
EXTENDS Integers, Sequences, FiniteSets, TLC

VARIABLES
    level,                \* the floor and the entities' immutable components
    pos,                  \* World._components[CPosition]: eid -> point or NoPos
    hp,                   \* CHealth.hp
    is_dead,              \* CHealth.is_dead
    inv_items,            \* the player's CInventory.items
    event_queue,          \* World._event_queue
    combat_active,        \* CombatStateSystem.combat_active
    combat_participants,  \* CombatStateSystem.combat_participants
    rng,                  \* state of the shared random.Random
    game_over,            \* PlayScene.game_over
    turn_count,           \* PlayScene.turn_count
    message_log,          \* texts handed to MessageLog.add_message
    obs,                  \* history of what the last calls read and posted
    pc,                   \* position inside PlayScene._process_turn
    calls,                \* posts and system calls made by the system-level client
    other,                \* the second run of the two-run specification
    world,                \* World._next_entity_id, _entities, _components (store level)
    unit                  \* arguments and result of the function under test

vars == <<level, pos, hp, is_dead, inv_items, event_queue, combat_active,
          combat_participants, rng, game_over, turn_count, message_log,
          obs, pc, calls, other, world, unit>>

----------------------------------------------------------------------------
(* Bounds of the model *)

GridW == 4
GridH == 6
MaxTurns == 4
MaxCalls == 4
\* Number of states of the modelled random stream
RngMod == 128

(* Program constants *)

ChaseRange == 5
PlayerMaxHp == 100
PlayerCapacity == 20
SlimeMaxHp == 15

----------------------------------------------------------------------------
(* Entities, points, tiles *)

PlayerEid == 1
Entities == {1, 2, 3}
None == 0
NoPos == <<-9, -9>>

Abs(n) == IF n < 0 THEN -n ELSE n
Max2(a, b) == IF a >= b THEN a ELSE b
Min2(a, b) == IF a <= b THEN a ELSE b

Chebyshev(p, q) == Max2(Abs(p[1] - q[1]), Abs(p[2] - q[2]))
Manhattan(p, q) == Abs(p[1] - q[1]) + Abs(p[2] - q[2])

InBounds(p) == 0 <= p[1] /\ p[1] < GridW /\ 0 <= p[2] /\ p[2] < GridH
\* Mutant of the walkable test: every tile counts as floor
WalkableAnywhere(s, p) == TRUE

\* grid[y][x].walkable
Walkable(s, p) == p \notin s.level.walls

RECURSIVE SortedSeq(_)
SortedSeq(S) ==
    IF S = {} THEN <<>>
    ELSE LET m == CHOOSE x \in S : \A y \in S : x <= y
         IN <<m>> \o SortedSeq(S \ {m})

HasHealth(s, e) == s.level.kind[e] \in {"player", "monster"}
HasStats(s, e) == s.level.kind[e] \in {"player", "monster"}
HasAI(s, e) == s.level.kind[e] = "monster"
HasInventory(s, e) == s.level.kind[e] = "player"
BlockerPassable(s, e) == s.level.kind[e] = "item"

----------------------------------------------------------------------------
(* Events: one record shape, unused fields at their defaults *)

Ev(t, e, tg, fr, to, tx) ==
    [type |-> t, eid |-> e, target |-> tg, from |-> fr, to |-> to, text |-> tx,
     amount |-> 0]

MoveRequested(e, to) == Ev("MoveRequested", e, None, NoPos, to, "")
MoveResolved(e, fr, to) == Ev("MoveResolved", e, None, fr, to, "")
Bump(e, tg) == Ev("Bump", e, tg, NoPos, NoPos, "")
AttackRequested(a, tg) == Ev("AttackRequested", a, tg, NoPos, NoPos, "")
DamageApplied(tg, amount, src) ==
    [Ev("DamageApplied", src, tg, NoPos, NoPos, "") EXCEPT !.amount = amount]
EntityDied(e, killer) == Ev("EntityDied", e, killer, NoPos, NoPos, "")
ItemPicked(e, item) == Ev("ItemPicked", e, item, NoPos, NoPos, "")
DescendRequested(e, xy) == Ev("DescendRequested", e, None, NoPos, xy, "")
Message(tx) == Ev("Message", None, None, NoPos, NoPos, tx)
CombatStarted == Ev("CombatStarted", None, None, NoPos, NoPos, "")
CombatEnded == Ev("CombatEnded", None, None, NoPos, NoPos, "")

Count(q, ev) == Cardinality({i \in 1..Len(q) : q[i] = ev})
CountType(q, t) == Cardinality({i \in 1..Len(q) : q[i].type = t})
SeqSuffix(q, n) == SubSeq(q, n + 1, Len(q))
InSeq(q, ev) == \E i \in 1..Len(q) : q[i] = ev

----------------------------------------------------------------------------
(* World: the entity store's queue and position queries *)

\* World.post, for an event a system or the input step originates
Post(s, ev) ==
    [s EXCEPT !.event_queue = Append(@, ev),
              !.obs.posted = Append(@, ev)]

\* World.post, for a drained event put back unchanged
Repost(s, ev) == [s EXCEPT !.event_queue = Append(@, ev)]

\* World.drain_events: the batch is s.event_queue, the queue is left empty
Drained(s) == [s EXCEPT !.event_queue = <<>>]

\* World.entities_at: ids in the iteration order of a set of small ints
EntitiesAt(s, p) == SortedSeq({e \in Entities : s.pos[e] # NoPos /\ s.pos[e] = p})

\* World.is_blocked, called with the grid
IsBlocked(s, p) ==
    \/ ~InBounds(p)
    \/ ~Walkable(s, p)
    \/ \E e \in Entities : s.pos[e] = p /\ ~BlockerPassable(s, e)

----------------------------------------------------------------------------
(* The shared random stream.  random.Random is a deterministic function of *)
(* its seed; the stream is modelled as a full-period linear congruential   *)
(* generator, each draw advancing the state once.                          *)

RngStep(r) == (5 * r + 3) % RngMod

\* random.Random(seed)
RngSeed(seed) == seed % RngMod

\* Random.randint(a, b): the value drawn and the state after
RandInt(r, a, b) == [v |-> a + (RngStep(r) % (b - a + 1)), r |-> RngStep(r)]

\* Random.random() * 100.0, as a whole percentage
RandPct(r) == [v |-> RngStep(r) % 100, r |-> RngStep(r)]

\* Random.choice over a sequence
RandChoice(r, seq) == [v |-> seq[1 + (RngStep(r) % Len(seq))], r |-> RngStep(r)]

----------------------------------------------------------------------------
(* Stats and rules *)

PlayerStats == [strength |-> 12, agility |-> 14, intellect |-> 10,
                accuracy |-> 5, evasion |-> 3, crit_chance |-> 10]
SlimeStats == [strength |-> 8, agility |-> 6, intellect |-> 2,
               accuracy |-> 5, evasion |-> 2, crit_chance |-> 5]
Stats(s, e) == IF s.level.kind[e] = "player" THEN PlayerStats ELSE SlimeStats

\* The implicit unarmed weapon "1d4+STR": one dice term and one attribute term
UnarmedDice == [num_dice |-> 1, die_size |-> 4, const |-> 0, attr |-> "strength"]

RECURSIVE RollDice(_, _, _)
\* [self.rng.randint(1, die_size) for _ in range(num_dice)], summed
RollDice(r, n, size) ==
    IF n = 0 THEN [v |-> 0, r |-> r]
    ELSE LET d == RandInt(r, 1, size)
             rest == RollDice(d.r, n - 1, size)
         IN [v |-> d.v + rest.v, r |-> rest.r]

\* DiceRoller.roll on a parsed expression
DiceRoll(r, expr, stats) ==
    LET dice == IF expr.num_dice > 0 /\ expr.die_size > 0
                THEN RollDice(r, expr.num_dice, expr.die_size)
                ELSE [v |-> 0, r |-> r]
        mod == expr.const + (IF expr.attr = "" THEN 0 ELSE stats[expr.attr])
        total == dice.v + mod
    IN [total |-> IF total < 0 THEN 0 ELSE total,
        dice_total |-> dice.v, mod_total |-> mod, r |-> dice.r]

\* rules.attack.to_hit with an empty context
ToHit(r, att, def) ==
    LET d == RandInt(r, 1, 20)
        attack_bonus == att.accuracy
        defense_value == 10 + def.evasion
        hit == IF d.v = 1 THEN FALSE
               ELSE IF d.v = 20 THEN TRUE
               ELSE d.v + attack_bonus >= defense_value
        c == RandPct(d.r)
    IN IF hit
       THEN [hit |-> TRUE, crit |-> c.v < Max2(0, Min2(100, att.crit_chance)),
             roll |-> d.v, r |-> c.r]
       ELSE [hit |-> FALSE, crit |-> FALSE, roll |-> d.v, r |-> d.r]

\* apply_melee_ranged with a critical hit doubling the whole roll
ApplyMeleeRangedDoubleAll(r, att, weapon, is_crit) ==
    LET base == DiceRoll(r, weapon, att)
        final_base == IF is_crit THEN (base.dice_total + base.mod_total) * 2
                      ELSE base.total
    IN [final_damage |-> Max2(0, final_base), original_damage |-> final_base,
        r |-> base.r]

\* rules.damage.apply_melee_ranged against a defender without armor
ApplyMeleeRanged(r, att, weapon, is_crit) ==
    LET base == DiceRoll(r, weapon, att)
        final_base == IF is_crit THEN base.dice_total * 2 + base.mod_total
                      ELSE base.total
    IN [final_damage |-> Max2(0, final_base), original_damage |-> final_base,
        r |-> base.r]

----------------------------------------------------------------------------
(* Combat-State system *)

\* CombatStateSystem.is_in_combat
IsInCombat(s, eid) == eid \in s.combat_participants

\* Mutant of can_move_freely: the distance taken as Manhattan distance
CanMoveFreelyManhattan(s, eid, from_pos, to_pos) ==
    IF ~IsInCombat(s, eid) THEN TRUE
    ELSE Manhattan(to_pos, from_pos) <= 1

\* CombatStateSystem.can_move_freely
CanMoveFreely(s, eid, from_pos, to_pos) ==
    IF ~IsInCombat(s, eid) THEN TRUE
    ELSE Chebyshev(to_pos, from_pos) <= 1

\* Mutant of _handle_combat_start: an active engagement's participants are
\* replaced by the new pair instead of extended
HandleCombatStartReplace(s, attacker_eid, target_eid) ==
    IF ~s.combat_active
    THEN Post([s EXCEPT !.combat_active = TRUE,
                        !.combat_participants = {attacker_eid, target_eid}],
              CombatStarted)
    ELSE [s EXCEPT !.combat_participants = {attacker_eid, target_eid}]

\* CombatStateSystem._handle_combat_start
HandleCombatStart(s, attacker_eid, target_eid) ==
    LET new_participants == {attacker_eid, target_eid}
    IN IF ~s.combat_active
       THEN Post([s EXCEPT !.combat_active = TRUE,
                           !.combat_participants = new_participants],
                 CombatStarted)
       ELSE [s EXCEPT !.combat_participants = @ \cup new_participants]

\* CombatStateSystem._should_end_combat
ShouldEndCombat(s) ==
    LET positions == {e \in s.combat_participants :
                         s.pos[e] # NoPos /\ HasHealth(s, e) /\ ~s.is_dead[e]}
    IN \/ Cardinality(s.combat_participants) < 2
       \/ Cardinality(positions) < 2
       \/ ~\E e1, e2 \in positions :
              e1 # e2 /\ Chebyshev(s.pos[e1], s.pos[e2]) <= 1

\* Mutant of _end_combat: the participant set is not cleared
EndCombatKeepSet(s) == Post([s EXCEPT !.combat_active = FALSE], CombatEnded)

\* CombatStateSystem._end_combat
EndCombat(s) ==
    Post([s EXCEPT !.combat_active = FALSE, !.combat_participants = {}],
         CombatEnded)

\* Mutant of _handle_entity_death: the dead entity is removed and the
\* engagement is never closed
HandleEntityDeathRemoveOnly(s, dead_eid) ==
    [s EXCEPT !.combat_participants = @ \ {dead_eid}]

\* CombatStateSystem._handle_entity_death
HandleEntityDeath(s, dead_eid) ==
    IF dead_eid \in s.combat_participants
    THEN LET s1 == [s EXCEPT !.combat_participants = @ \ {dead_eid}]
         IN IF ShouldEndCombat(s1) THEN EndCombat(s1) ELSE s1
    ELSE s

\* One iteration of the first loop of CombatStateSystem.process, with what an
\* AttackRequested found and left recorded in obs.starts and what an
\* EntityDied found and left in obs.deaths
CombatStateHandle(s, ev) ==
    IF ev.type = "AttackRequested"
    THEN LET s1 == HandleCombatStart(s, ev.eid, ev.target)
         IN [s1 EXCEPT !.obs.starts = Append(@,
                [a |-> ev.eid, b |-> ev.target,
                 was_active |-> s.combat_active,
                 before |-> s.combat_participants,
                 after |-> s1.combat_participants,
                 now_active |-> s1.combat_active,
                 started |-> CountType(s1.event_queue, "CombatStarted")
                             - CountType(s.event_queue, "CombatStarted")])]
    ELSE IF ev.type = "EntityDied"
    THEN LET s1 == HandleEntityDeath(s, ev.eid)
         IN [s1 EXCEPT !.obs.deaths = Append(@,
                [eid |-> ev.eid,
                 was_active |-> s.combat_active,
                 before |-> s.combat_participants,
                 after |-> s1.combat_participants,
                 now_active |-> s1.combat_active,
                 pos |-> s.pos, is_dead |-> s.is_dead,
                 ended |-> CountType(s1.event_queue, "CombatEnded")
                           - CountType(s.event_queue, "CombatEnded")])]
    ELSE s

RECURSIVE CombatStateLoop(_, _, _)
CombatStateLoop(s, batch, i) ==
    IF i > Len(batch) THEN s
    ELSE CombatStateLoop(CombatStateHandle(s, batch[i]), batch, i + 1)

\* Mutant of the second loop of process: nothing is posted back
RepostNothing(s, batch, i) == s

RECURSIVE RepostAll(_, _, _)
RepostAll(s, batch, i) ==
    IF i > Len(batch) THEN s
    ELSE RepostAll(Repost(s, batch[i]), batch, i + 1)

\* CombatStateSystem.process
CombatStateProcess(s) ==
    LET batch == s.event_queue
        s0 == [Drained(s) EXCEPT !.obs.starts = <<>>, !.obs.deaths = <<>>]
    IN RepostAll(CombatStateLoop(s0, batch, 1), batch, 1)

----------------------------------------------------------------------------
(* Movement system *)

\* MovementSystem._adjacent4
Adjacent4(a, b) == Manhattan(a, b) = 1

RECURSIVE ScanTargetsBlockerFirst(_, _, _, _)
\* Mutant of the target loop: the Blocker is consulted before the Health
ScanTargetsBlockerFirst(s, eid, targets, i) ==
    IF i > Len(targets) THEN [result |-> "clear", target |-> None]
    ELSE LET target_eid == targets[i]
         IN IF target_eid = eid THEN ScanTargetsBlockerFirst(s, eid, targets, i + 1)
            ELSE IF ~BlockerPassable(s, target_eid)
                 THEN [result |-> "blocked", target |-> target_eid]
            ELSE IF HasHealth(s, target_eid) /\ ~s.is_dead[target_eid]
                 THEN [result |-> "attack", target |-> target_eid]
            ELSE ScanTargetsBlockerFirst(s, eid, targets, i + 1)

\* Mutant of the target loop: whoever stands on the destination is ignored
ScanTargetsSeeNothing(s, eid, targets, i) == [result |-> "clear", target |-> None]

RECURSIVE ScanTargets(_, _, _, _)
\* The loop over entities_at_target: the first entity that decides the move.
\* "attack" with the entity bumped into, "blocked", or "clear".
ScanTargets(s, eid, targets, i) ==
    IF i > Len(targets) THEN [result |-> "clear", target |-> None]
    ELSE LET target_eid == targets[i]
         IN IF target_eid = eid THEN ScanTargets(s, eid, targets, i + 1)
            ELSE IF HasHealth(s, target_eid) /\ ~s.is_dead[target_eid]
                 THEN [result |-> "attack", target |-> target_eid]
            ELSE IF ~BlockerPassable(s, target_eid)
                 THEN [result |-> "blocked", target |-> target_eid]
            ELSE ScanTargets(s, eid, targets, i + 1)

\* The tail of _handle_move_request: commit, MoveResolved, adjacency attack
CommitMove(s, eid, from_pos, to_pos) ==
    LET s1 == Post([s EXCEPT !.pos[eid] = to_pos],
                   MoveResolved(eid, from_pos, to_pos))
        player_eid == s.level.ms_player_eid
    IN IF player_eid # None /\ eid # player_eid
          /\ s1.pos[player_eid] # NoPos
          /\ Adjacent4(s1.pos[eid], s1.pos[player_eid])
       THEN Post(s1, AttackRequested(eid, player_eid))
       ELSE s1

\* MovementSystem._handle_move_request
HandleMoveRequest(s, ev) ==
    LET eid == ev.eid
        to_pos == ev.to
        from_pos == s.pos[eid]
    IN IF from_pos = NoPos THEN s
       ELSE IF ~CanMoveFreely(s, eid, from_pos, to_pos)
            THEN Post(s, Message("Cannot flee from combat!"))
       ELSE IF ~InBounds(to_pos)
            THEN Post(s, Message("Can't go that way!"))
       ELSE IF ~Walkable(s, to_pos) THEN s
       ELSE LET scan == ScanTargets(s, eid, EntitiesAt(s, to_pos), 1)
            IN IF scan.result = "attack"
               THEN Post(Post(s, Bump(eid, scan.target)),
                         AttackRequested(eid, scan.target))
               ELSE IF scan.result = "blocked" THEN s
               ELSE CommitMove(s, eid, from_pos, to_pos)

\* What one _handle_move_request found and left, recorded in obs.moves
MoveRecorded(s, s1, ev) ==
    LET rec == [eid |-> ev.eid, to |-> ev.to, from |-> s.pos[ev.eid],
                was_active |-> s.combat_active,
                participant |-> ev.eid \in s.combat_participants,
                free |-> CanMoveFreely(s, ev.eid, s.pos[ev.eid], ev.to),
                inbounds |-> InBounds(ev.to),
                walkable |-> InBounds(ev.to) /\ Walkable(s, ev.to),
                alive_others |-> {e \in Entities \ {ev.eid} :
                                     /\ s.pos[e] = ev.to
                                     /\ HasHealth(s, e) /\ ~s.is_dead[e]},
                player_pos |-> s.pos[PlayerEid],
                posted |-> SeqSuffix(s1.event_queue, Len(s.event_queue)),
                pos_after |-> s1.pos[ev.eid]]
    IN [s1 EXCEPT !.obs.moves = Append(@, rec)]

ObservedMove(s, ev) == MoveRecorded(s, HandleMoveRequest(s, ev), ev)

RECURSIVE MovementLoop(_, _, _)
MovementLoop(s, batch, i) ==
    IF i > Len(batch) THEN s
    ELSE IF batch[i].type = "MoveRequested"
         THEN MovementLoop(ObservedMove(s, batch[i]), batch, i + 1)
         ELSE MovementLoop(Repost(s, batch[i]), batch, i + 1)

\* MovementSystem.process
MovementProcess(s) ==
    MovementLoop([Drained(s) EXCEPT !.obs.moves = <<>>], s.event_queue, 1)

----------------------------------------------------------------------------
(* Combat system *)

\* Mutant of _handle_attack: the damage is subtracted without the floor at 0
HandleAttackNoFloor(s, ev) ==
    LET attacker_eid == ev.eid
        target_eid == ev.target
    IN IF ~(HasStats(s, attacker_eid) /\ HasHealth(s, target_eid)
            /\ HasStats(s, target_eid))
       THEN s
       ELSE
       LET attack_result == ToHit(s.rng, Stats(s, attacker_eid), Stats(s, target_eid))
           damage_result == ApplyMeleeRanged(attack_result.r, Stats(s, attacker_eid),
                                             UnarmedDice, attack_result.crit)
           s1 == IF attack_result.hit
                 THEN Post([s EXCEPT !.rng = damage_result.r,
                                     !.hp[target_eid] = @ - damage_result.final_damage],
                           DamageApplied(target_eid, damage_result.final_damage,
                                         attacker_eid))
                 ELSE [s EXCEPT !.rng = attack_result.r]
           target_died == s1.hp[target_eid] <= 0
       IN IF target_died
          THEN Post([s1 EXCEPT !.is_dead[target_eid] = TRUE],
                    EntityDied(target_eid, attacker_eid))
          ELSE s1

\* CombatSystem._handle_attack
HandleAttack(s, ev) ==
    LET attacker_eid == ev.eid
        target_eid == ev.target
    IN IF ~(HasStats(s, attacker_eid) /\ HasHealth(s, target_eid)
            /\ HasStats(s, target_eid))
       THEN s
       ELSE
       LET attack_result == ToHit(s.rng, Stats(s, attacker_eid), Stats(s, target_eid))
           damage_result == ApplyMeleeRanged(attack_result.r, Stats(s, attacker_eid),
                                             UnarmedDice, attack_result.crit)
           s1 == IF attack_result.hit
                 THEN Post([s EXCEPT !.rng = damage_result.r,
                                     !.hp[target_eid] =
                                         Max2(0, @ - damage_result.final_damage)],
                           DamageApplied(target_eid, damage_result.final_damage,
                                         attacker_eid))
                 ELSE [s EXCEPT !.rng = attack_result.r]
           target_died == s1.hp[target_eid] <= 0
       IN IF target_died
          THEN Post([s1 EXCEPT !.is_dead[target_eid] = TRUE],
                    EntityDied(target_eid, attacker_eid))
          ELSE s1

\* What one _handle_attack found and left, recorded in obs
AttackRecorded(s, s1, ev) ==
    LET died == CountType(s1.event_queue, "EntityDied")
                - CountType(s.event_queue, "EntityDied")
        ran == HasStats(s, ev.eid) /\ HasHealth(s, ev.target) /\ HasStats(s, ev.target)
    IN [s1 EXCEPT !.obs.died[ev.target] = @ + died,
                  !.obs.resolved = IF ran THEN @ \cup {<<ev.eid, ev.target>>} ELSE @,
                  !.obs.attacks = Append(@,
                      [attacker |-> ev.eid, target |-> ev.target,
                       attacker_dead |-> s.is_dead[ev.eid],
                       target_dead |-> s.is_dead[ev.target],
                       posted |-> SeqSuffix(s1.event_queue, Len(s.event_queue))])]

ObservedAttack(s, ev) == AttackRecorded(s, HandleAttack(s, ev), ev)

RECURSIVE CombatLoop(_, _, _)
CombatLoop(s, batch, i) ==
    IF i > Len(batch) THEN s
    ELSE IF batch[i].type = "AttackRequested"
         THEN CombatLoop(ObservedAttack(s, batch[i]), batch, i + 1)
         ELSE CombatLoop(s, batch, i + 1)

\* CombatSystem.process
CombatProcess(s) ==
    CombatLoop([Drained(s) EXCEPT !.obs.attacks = <<>>], s.event_queue, 1)

----------------------------------------------------------------------------
(* Inventory system *)

\* "item" in descriptor.glyph.lower()
IsItemGlyph(g) == g \in {"item", "Item", "item_potion"}

RECURSIVE PickupLoopNoLimit(_, _, _, _)
\* Mutant of the pickup loop: the capacity is never looked at
PickupLoopNoLimit(s, eid, items_here, i) ==
    IF i > Len(items_here) THEN s
    ELSE LET item_eid == items_here[i]
             s1 == [s EXCEPT !.inv_items = Append(@, item_eid),
                             !.pos[item_eid] = NoPos]
             s2 == Post(Post(s1, ItemPicked(eid, item_eid)), Message("Picked up"))
         IN PickupLoopNoLimit(s2, eid, items_here, i + 1)

RECURSIVE PickupLoop(_, _, _, _)
\* The pickup loop of _check_item_pickup
PickupLoop(s, eid, items_here, i) ==
    IF i > Len(items_here) THEN s
    ELSE IF Len(s.inv_items) >= s.level.capacity
         THEN Post(s, Message("Inventory full!"))
    ELSE LET item_eid == items_here[i]
             s1 == [s EXCEPT !.inv_items = Append(@, item_eid),
                             !.pos[item_eid] = NoPos]
             s2 == Post(Post(s1, ItemPicked(eid, item_eid)), Message("Picked up"))
         IN PickupLoop(s2, eid, items_here, i + 1)

\* InventorySystem._check_item_pickup
CheckItemPickup(s, ev) ==
    IF ~HasInventory(s, ev.eid) THEN s
    ELSE LET items_here == SortedSeq({e \in Entities :
                               /\ s.pos[e] # NoPos /\ s.pos[e] = ev.to
                               /\ IsItemGlyph(s.level.glyph[e])})
         IN PickupLoop(s, ev.eid, items_here, 1)

\* What one _check_item_pickup found and left, recorded in obs.pickups
PickupRecorded(s, s1, ev) ==
    [s1 EXCEPT !.obs.pickups = Append(@,
        [eid |-> ev.eid, to |-> ev.to, before |-> s.inv_items,
         after |-> s1.inv_items, pos_before |-> s.pos, pos_after |-> s1.pos,
         posted |-> SeqSuffix(s1.event_queue, Len(s.event_queue))])]

ObservedPickup(s, ev) == PickupRecorded(s, CheckItemPickup(s, ev), ev)

RECURSIVE InventoryLoop(_, _, _)
InventoryLoop(s, batch, i) ==
    IF i > Len(batch) THEN s
    ELSE IF batch[i].type = "MoveResolved"
         THEN InventoryLoop(ObservedPickup(s, batch[i]), batch, i + 1)
         ELSE InventoryLoop(s, batch, i + 1)

\* InventorySystem.process
InventoryProcess(s) ==
    InventoryLoop([Drained(s) EXCEPT !.obs.inv_batch = s.event_queue,
                                     !.obs.pickups = <<>>],
                  s.event_queue, 1)

----------------------------------------------------------------------------
(* Pathfinder: A* over the grid, 4-way, Manhattan heuristic.  The open heap *)
(* holds tuples <<f, x, y>>; heappop returns the least one in tuple order.  *)

Cells == {<<x, y>> : x \in 0..(GridW - 1), y \in 0..(GridH - 1)}
NeighborOffsets == << <<0, 1>>, <<0, -1>>, <<1, 0>>, <<-1, 0>> >>

TupleLess(a, b) ==
    \/ a[1] < b[1]
    \/ a[1] = b[1] /\ a[2] < b[2]
    \/ a[1] = b[1] /\ a[2] = b[2] /\ a[3] < b[3]

\* passable(np), reached only for in-bounds np
Passable(s, p) == Walkable(s, p) /\ ~IsBlocked(s, p)

\* get_neighbors without the passable test
GetNeighborsUnchecked(s, p) ==
    LET cand == [i \in 1..4 |-> <<p[1] + NeighborOffsets[i][1],
                                  p[2] + NeighborOffsets[i][2]>>]
    IN SelectSeq(cand, LAMBDA np : InBounds(np))

\* get_neighbors
GetNeighbors(s, p) ==
    LET cand == [i \in 1..4 |-> <<p[1] + NeighborOffsets[i][1],
                                  p[2] + NeighborOffsets[i][2]>>]
    IN SelectSeq(cand, LAMBDA np : InBounds(np) /\ Passable(s, np))

RECURSIVE Relax(_, _, _, _, _)
\* The loop over the neighbors of `current`; st is [open, came_from, g_score]
Relax(st, current, nbrs, i, goal) ==
    IF i > Len(nbrs) THEN st
    ELSE LET neighbor == nbrs[i]
             tentative_g == st.g_score[current] + 1
         IN IF st.g_score[neighbor] = -1 \/ tentative_g < st.g_score[neighbor]
            THEN Relax([open |-> st.open \cup
                                 {<<tentative_g + Manhattan(neighbor, goal),
                                    neighbor[1], neighbor[2]>>},
                        came_from |-> [st.came_from EXCEPT ![neighbor] = current],
                        g_score |-> [st.g_score EXCEPT ![neighbor] = tentative_g]],
                       current, nbrs, i + 1, goal)
            ELSE Relax(st, current, nbrs, i + 1, goal)

RECURSIVE Reconstruct(_, _)
\* The path from the start to `current`, following came_from backwards
Reconstruct(came_from, current) ==
    IF came_from[current] = NoPos THEN <<current>>
    ELSE Append(Reconstruct(came_from, came_from[current]), current)

RECURSIVE AStar(_, _, _)
AStar(s, st, goal) ==
    IF st.open = {} THEN <<>>
    ELSE LET top == CHOOSE a \in st.open : \A b \in st.open : a = b \/ TupleLess(a, b)
             current == <<top[2], top[3]>>
             st1 == [st EXCEPT !.open = @ \ {top}]
         IN IF current = goal THEN Reconstruct(st.came_from, current)
            ELSE AStar(s, Relax(st1, current, GetNeighbors(s, current), 1, goal), goal)

\* util.pathfinding.find_path(start, goal, grid, world); <<>> stands for None
FindPath(s, start, goal) ==
    AStar(s, [open |-> {<<0, start[1], start[2]>>},
              came_from |-> [c \in Cells |-> NoPos],
              g_score |-> [c \in Cells |-> IF c = start THEN 0 ELSE -1]],
          goal)

----------------------------------------------------------------------------
(* AI system *)

WanderDirections == << <<0, 1>>, <<0, -1>>, <<1, 0>>, <<-1, 0>>,
                       <<1, 1>>, <<1, -1>>, <<-1, 1>>, <<-1, -1>> >>

Sign(n) == IF n > 0 THEN 1 ELSE IF n < 0 THEN -1 ELSE 0

\* AISystem._move_toward_player_direct
MoveTowardPlayerDirect(s, eid, monster_pos, player_pos) ==
    LET new_pos == <<monster_pos[1] + Sign(player_pos[1] - monster_pos[1]),
                     monster_pos[2] + Sign(player_pos[2] - monster_pos[2])>>
    IN IF new_pos = player_pos
       THEN Post(s, AttackRequested(eid, PlayerEid))
       ELSE Post(s, MoveRequested(eid, new_pos))

\* AISystem._process_wander_ai
ProcessWanderAI(s, eid, player_pos) ==
    LET c == RandChoice(s.rng, WanderDirections)
        new_pos == <<s.pos[eid][1] + c.v[1], s.pos[eid][2] + c.v[2]>>
        s1 == [s EXCEPT !.rng = c.r]
    IN IF new_pos = player_pos
       THEN Post(s1, AttackRequested(eid, PlayerEid))
       ELSE Post(s1, MoveRequested(eid, new_pos))

\* AISystem._process_chase_ai
ProcessChaseAI(s, eid, player_pos) ==
    LET monster_pos == s.pos[eid]
        distance == Chebyshev(monster_pos, player_pos)
    IN IF distance = 1 THEN Post(s, AttackRequested(eid, PlayerEid))
       ELSE IF distance <= ChaseRange
       THEN LET path == FindPath(s, monster_pos, player_pos)
            IN IF Len(path) > 1
               THEN IF Chebyshev(path[2], player_pos) = 0
                    THEN Post(s, AttackRequested(eid, PlayerEid))
                    ELSE Post(s, MoveRequested(eid, path[2]))
               ELSE MoveTowardPlayerDirect(s, eid, monster_pos, player_pos)
       ELSE ProcessWanderAI(s, eid, player_pos)

\* What one _process_chase_ai found and left, recorded in obs.ai
ChaseRecorded(s, s1, eid, player_pos) ==
    [s1 EXCEPT !.obs.ai = Append(@,
        [eid |-> eid, from |-> s.pos[eid], player_pos |-> player_pos,
         pos |-> s.pos,
         posted |-> SeqSuffix(s1.event_queue, Len(s.event_queue))])]

ObservedChase(s, eid, player_pos) ==
    ChaseRecorded(s, ProcessChaseAI(s, eid, player_pos), eid, player_pos)

RECURSIVE AILoopDeadAct(_, _, _, _)
\* Mutant of the loop of AISystem.process: the dead are not skipped
AILoopDeadAct(s, eids, i, player_pos) ==
    IF i > Len(eids) THEN s
    ELSE LET eid == eids[i]
         IN IF s.level.behavior[eid] = "chase"
            THEN AILoopDeadAct(ObservedChase(s, eid, player_pos), eids, i + 1, player_pos)
            ELSE IF s.level.behavior[eid] = "wander"
            THEN AILoopDeadAct(ProcessWanderAI(s, eid, player_pos), eids, i + 1, player_pos)
            ELSE AILoopDeadAct(s, eids, i + 1, player_pos)

RECURSIVE AILoop(_, _, _, _)
AILoop(s, eids, i, player_pos) ==
    IF i > Len(eids) THEN s
    ELSE LET eid == eids[i]
         IN IF s.is_dead[eid] THEN AILoop(s, eids, i + 1, player_pos)
            ELSE IF s.level.behavior[eid] = "chase"
                 THEN AILoop(ObservedChase(s, eid, player_pos), eids, i + 1, player_pos)
            ELSE IF s.level.behavior[eid] = "wander"
                 THEN AILoop(ProcessWanderAI(s, eid, player_pos), eids, i + 1, player_pos)
            ELSE AILoop(s, eids, i + 1, player_pos)

\* AISystem.process
AIProcess(s) ==
    IF s.pos[PlayerEid] = NoPos THEN s
    ELSE AILoop([s EXCEPT !.obs.ai = <<>>],
                SortedSeq({e \in Entities : HasAI(s, e) /\ s.pos[e] # NoPos}),
                1, s.pos[PlayerEid])

----------------------------------------------------------------------------
(* PlayScene: the input step and the per-turn schedule *)

InputActions == {"up", "down", "left", "right", "wait", "descend",
                 "inventory", "spellbook"}

\* InputHandler.get_direction with core.types.Direction
DirectionOf(action) ==
    CASE action = "up" -> <<0, -1>>
      [] action = "down" -> <<0, 1>>
      [] action = "left" -> <<-1, 0>>
      [] action = "right" -> <<1, 0>>

\* InputSystem.handle_action
HandleAction(s, action) ==
    LET p == s.pos[PlayerEid]
    IN IF action \in {"up", "down", "left", "right"}
       THEN IF p = NoPos THEN s
            ELSE Post(s, MoveRequested(PlayerEid,
                         <<p[1] + DirectionOf(action)[1], p[2] + DirectionOf(action)[2]>>))
       ELSE IF action = "wait" THEN Post(s, Message("You wait."))
       ELSE IF action = "descend"
            THEN IF p = NoPos THEN s ELSE Post(s, DescendRequested(PlayerEid, p))
       ELSE IF action = "inventory" THEN Post(s, Message("Inventory not implemented yet"))
       ELSE Post(s, Message("Spellbook not implemented yet"))

\* The start of a turn in PlayScene.handle_input: the history of the turn is
\* opened, then the input system posts the player's action
BeginTurn(s, action) ==
    HandleAction([s EXCEPT !.obs.posted = <<>>,
                           !.obs.resolved = {},
                           !.obs.moved = {},
                           !.obs.action = action,
                           !.obs.idle = @ /\ action = "wait",
                           !.obs.start_pos = s.pos,
                           !.obs.start_items = s.inv_items],
                 action)

\* PlayScene._descend_stairs
DescendStairs(s) ==
    LET p == s.pos[PlayerEid]
    IN IF p = NoPos THEN s
       ELSE IF ~InBounds(p)
            THEN [s EXCEPT !.message_log = Append(@, "You can't descend here.")]
       ELSE IF p = s.level.stairs
            THEN [s EXCEPT !.message_log =
                     Append(@, "You descend the stairs... (Not implemented yet)")]
       ELSE [s EXCEPT !.message_log = Append(@, "There are no stairs here.")]

\* One iteration of the loop over the remaining events in _process_turn
RemainingHandle(s, ev) ==
    IF ev.type = "Message" THEN [s EXCEPT !.message_log = Append(@, ev.text)]
    ELSE IF ev.type = "EntityDied"
         THEN IF ev.eid = PlayerEid
              THEN [s EXCEPT !.game_over = TRUE,
                             !.message_log =
                                 Append(@, "You have died! Press R to restart.")]
              ELSE s
    ELSE IF ev.type = "DescendRequested" THEN DescendStairs(s)
    ELSE s

RECURSIVE RemainingLoop(_, _, _)
RemainingLoop(s, batch, i) ==
    IF i > Len(batch) THEN s
    ELSE RemainingLoop(RemainingHandle(s, batch[i]), batch, i + 1)

\* Step 5 of _process_turn: drain, hand over, count the turn
ProcessRemaining(s) ==
    LET batch == s.event_queue
        s1 == RemainingLoop(Drained(s), batch, 1)
    IN [s1 EXCEPT !.turn_count = @ + 1,
                  !.obs.final_batch = batch,
                  !.obs.pending = {pr \in s.obs.resolved :
                                      /\ ~s.is_dead[pr[1]] /\ ~s.is_dead[pr[2]]
                                      /\ s.pos[pr[1]] # NoPos /\ s.pos[pr[2]] # NoPos
                                      /\ Chebyshev(s.pos[pr[1]], s.pos[pr[2]]) = 1}]

\* The Movement step of the schedule, with the committed moves of the turn kept
MovementStep(s) ==
    LET s1 == MovementProcess(s)
    IN [s1 EXCEPT !.obs.moved = @ \cup
            {s1.obs.moves[i].eid : i \in {j \in 1..Len(s1.obs.moves) :
                 InSeq(s1.obs.moves[j].posted,
                       MoveResolved(s1.obs.moves[j].eid, s1.obs.moves[j].from,
                                    s1.obs.moves[j].to))}}]

\* FOVSystem.process: rewrites CVisible only, which no system reads
FOVProcess(s) == s

\* PlayScene._process_turn
ProcessTurn(s) ==
    ProcessRemaining(FOVProcess(CombatProcess(MovementStep(AIProcess(
        InventoryProcess(CombatProcess(MovementStep(CombatStateProcess(s)))))))))

----------------------------------------------------------------------------
(* The simulation record and the variables *)

Cur ==
    [level |-> level, pos |-> pos, hp |-> hp, is_dead |-> is_dead,
     inv_items |-> inv_items, event_queue |-> event_queue,
     combat_active |-> combat_active, combat_participants |-> combat_participants,
     rng |-> rng, game_over |-> game_over, turn_count |-> turn_count,
     message_log |-> message_log, obs |-> obs]

Becomes(s) ==
    /\ level' = s.level
    /\ pos' = s.pos
    /\ hp' = s.hp
    /\ is_dead' = s.is_dead
    /\ inv_items' = s.inv_items
    /\ event_queue' = s.event_queue
    /\ combat_active' = s.combat_active
    /\ combat_participants' = s.combat_participants
    /\ rng' = s.rng
    /\ game_over' = s.game_over
    /\ turn_count' = s.turn_count
    /\ message_log' = s.message_log
    /\ obs' = s.obs
    /\ UNCHANGED <<world, unit>>

StartsAs(s) ==
    /\ level = s.level
    /\ pos = s.pos
    /\ hp = s.hp
    /\ is_dead = s.is_dead
    /\ inv_items = s.inv_items
    /\ event_queue = s.event_queue
    /\ combat_active = s.combat_active
    /\ combat_participants = s.combat_participants
    /\ rng = s.rng
    /\ game_over = s.game_over
    /\ turn_count = s.turn_count
    /\ message_log = s.message_log
    /\ obs = s.obs
    /\ world = None
    /\ unit = None

NoObs(p) ==
    [posted |-> <<>>, moves |-> <<>>, starts |-> <<>>, deaths |-> <<>>,
     ai |-> <<>>, pickups |-> <<>>, attacks |-> <<>>,
     died |-> [e \in Entities |-> 0], resolved |-> {}, moved |-> {},
     inv_batch |-> <<>>, final_batch |-> <<>>, pending |-> {},
     action |-> "", idle |-> TRUE, start_pos |-> p, start_items |-> <<>>]

(* Floors and entity sets the factories can build: entity 1 is the player    *)
(* (spawn_player), the others are slimes (spawn_monster) or items            *)
(* (spawn_item) of a content record.                                         *)

SetupChase ==
    [name |-> "chase", kind |-> <<"player", "monster", "item">>, glyph |-> <<"@", "s", "item">>,
     behavior |-> <<"none", "chase", "none">>,
     pos |-> << <<2, 2>>, <<2, 5>>, <<3, 2>> >>,
     hp |-> <<PlayerMaxHp, SlimeMaxHp, 0>>, walls |-> {}]

SetupMelee ==
    [name |-> "melee", kind |-> <<"player", "monster", "monster">>, glyph |-> <<"@", "s", "s">>,
     behavior |-> <<"none", "chase", "chase">>,
     pos |-> << <<1, 1>>, <<1, 2>>, <<2, 1>> >>,
     hp |-> <<5, SlimeMaxHp, SlimeMaxHp>>, walls |-> {}]

SetupWander ==
    [name |-> "wander", kind |-> <<"player", "monster", "item">>, glyph |-> <<"@", "s", "/">>,
     behavior |-> <<"none", "wander", "none">>,
     pos |-> << <<0, 0>>, <<2, 1>>, <<1, 0>> >>,
     hp |-> <<PlayerMaxHp, SlimeMaxHp, 0>>, walls |-> {<<1, 1>>}]

SetupPincer ==
    [name |-> "pincer", kind |-> <<"player", "monster", "monster">>, glyph |-> <<"@", "s", "s">>,
     behavior |-> <<"none", "chase", "chase">>,
     pos |-> << <<2, 2>>, <<1, 4>>, <<3, 4>> >>,
     hp |-> <<PlayerMaxHp, SlimeMaxHp, SlimeMaxHp>>, walls |-> {}]

\* A wounded slime next to the player with another slime behind it
SetupQueue ==
    [name |-> "queue", kind |-> <<"player", "monster", "monster">>, glyph |-> <<"@", "s", "s">>,
     behavior |-> <<"none", "chase", "chase">>,
     pos |-> << <<2, 2>>, <<2, 4>>, <<2, 3>> >>,
     hp |-> <<PlayerMaxHp, SlimeMaxHp, 2>>, walls |-> {}]

Setups == {SetupChase, SetupMelee, SetupWander, SetupPincer, SetupQueue}
Clocks == {3, 41, 77}
Stairs == <<2, 1>>

\* The state after PlayScene.__init__ on a floor `su`, movement system
\* constructed with player_eid `ms` and the stream seeded with `seed`
StartState(su, ms, seed) ==
    [level |-> [name |-> su.name, walls |-> su.walls, stairs |-> Stairs, kind |-> su.kind,
                glyph |-> su.glyph, behavior |-> su.behavior,
                capacity |-> PlayerCapacity, ms_player_eid |-> ms],
     pos |-> su.pos, hp |-> su.hp, is_dead |-> [e \in Entities |-> FALSE],
     inv_items |-> <<>>, event_queue |-> <<>>,
     combat_active |-> FALSE, combat_participants |-> {},
     rng |-> RngSeed(seed), game_over |-> FALSE, turn_count |-> 0,
     message_log |-> <<>>, obs |-> NoObs(su.pos)]

----------------------------------------------------------------------------
(* Spec: the game as PlayScene runs it, one action per step of a turn *)

Init ==
    /\ \E su \in Setups, clock \in Clocks : StartsAs(StartState(su, None, clock))
    /\ pc = "input"
    /\ calls = 0
    /\ other = 0

\* PlayScene.handle_input up to the call of _process_turn
HandleInput ==
    /\ pc = "input"
    /\ ~game_over
    /\ turn_count < MaxTurns
    /\ \E action \in InputActions : Becomes(BeginTurn(Cur, action))
    /\ pc' = "combat_state"
    /\ UNCHANGED <<calls, other>>

StepCombatState ==
    /\ pc = "combat_state"
    /\ Becomes(CombatStateProcess(Cur))
    /\ pc' = "movement"
    /\ UNCHANGED <<calls, other>>

StepMovement ==
    /\ pc = "movement"
    /\ Becomes(MovementStep(Cur))
    /\ pc' = "combat"
    /\ UNCHANGED <<calls, other>>

StepCombat ==
    /\ pc = "combat"
    /\ Becomes(CombatProcess(Cur))
    /\ pc' = "inventory"
    /\ UNCHANGED <<calls, other>>

StepInventory ==
    /\ pc = "inventory"
    /\ Becomes(InventoryProcess(Cur))
    /\ pc' = "ai"
    /\ UNCHANGED <<calls, other>>

StepAI ==
    /\ pc = "ai"
    /\ Becomes(AIProcess(Cur))
    /\ pc' = "monster_movement"
    /\ UNCHANGED <<calls, other>>

StepMonsterMovement ==
    /\ pc = "monster_movement"
    /\ Becomes(MovementStep(Cur))
    /\ pc' = "monster_combat"
    /\ UNCHANGED <<calls, other>>

StepMonsterCombat ==
    /\ pc = "monster_combat"
    /\ Becomes(CombatProcess(Cur))
    /\ pc' = "fov"
    /\ UNCHANGED <<calls, other>>

StepFOV ==
    /\ pc = "fov"
    /\ Becomes(FOVProcess(Cur))
    /\ pc' = "remaining"
    /\ UNCHANGED <<calls, other>>

StepRemaining ==
    /\ pc = "remaining"
    /\ Becomes(ProcessRemaining(Cur))
    /\ pc' = "input"
    /\ UNCHANGED <<calls, other>>

Next ==
    \/ HandleInput
    \/ StepCombatState
    \/ StepMovement
    \/ StepCombat
    \/ StepInventory
    \/ StepAI
    \/ StepMonsterMovement
    \/ StepMonsterCombat
    \/ StepFOV
    \/ StepRemaining

Spec == Init /\ [][Next]_vars

----------------------------------------------------------------------------
(* SpecSys: the systems as a client of their classes can drive them: events *)
(* are posted to the world's queue (World.post) and a system's process is   *)
(* called on a non-empty queue, in any order.  The movement system is built *)
(* with or without player_eid.                                              *)

MoveOffsets == {<<0, 1>>, <<0, 2>>, <<-1, -1>>}
AttackPairs == {<<1, 2>>, <<3, 1>>, <<2, 3>>}

InitSys ==
    /\ \E ms \in {None, PlayerEid} : StartsAs(StartState(SetupMelee, ms, 3))
    /\ pc = "client"
    /\ calls = 0
    /\ other = 0

ClientPost(ev) ==
    /\ calls < MaxCalls
    /\ Becomes(Post(Cur, ev))
    /\ calls' = calls + 1
    /\ UNCHANGED <<pc, other>>

SysCall(s) ==
    /\ calls < MaxCalls
    /\ event_queue # <<>>
    /\ Becomes(s)
    /\ calls' = calls + 1
    /\ UNCHANGED <<pc, other>>

ClientPostMove ==
    \E e \in Entities, d \in MoveOffsets :
        /\ pos[e] # NoPos
        /\ ClientPost(MoveRequested(e, <<pos[e][1] + d[1], pos[e][2] + d[2]>>))

ClientPostAttack ==
    \E pr \in AttackPairs : ClientPost(AttackRequested(pr[1], pr[2]))

\* An EntityDied as the Combat system posts it, put in the queue by the client
ClientPostDied ==
    \E e \in Entities : ClientPost(EntityDied(e, None))

SysCombatState == SysCall(CombatStateProcess(Cur))
SysMovement == SysCall(MovementProcess(Cur))
SysCombat == SysCall(CombatProcess(Cur))

NextSys ==
    \/ ClientPostMove
    \/ ClientPostAttack
    \/ ClientPostDied
    \/ SysCombatState
    \/ SysMovement
    \/ SysCombat

SpecSys == InitSys /\ [][NextSys]_vars

----------------------------------------------------------------------------
(* SpecDet: two runs of the game configured with the same seed and fed the  *)
(* same actions, started at two readings of the clock.  The first run lives *)
(* in the variables, the second in `other`; a step is one whole turn.       *)

ConfigSeeds == {11, 29}
PlayerStart == <<1, 1>>
\* rooms[1:], the rooms monsters are spawned in
MonsterRooms == << [x |-> 0, y |-> 3, width |-> 2, height |-> 2],
                   [x |-> 2, y |-> 3, width |-> 2, height |-> 2] >>

\* The seed PlayScene.__init__ hands to GameRNG: config["gameplay"]["seed"] is
\* read into a local that is not used, the stream is seeded with the clock
SceneSeed(config_seed, clock) == clock

\* PlayScene._spawn_monsters over two rooms: the sample's order, then a cell
\* of each room
SpawnMonsters(r) ==
    LET order == RandInt(r, 0, 1)
        first == IF order.v = 0 THEN MonsterRooms[1] ELSE MonsterRooms[2]
        second == IF order.v = 0 THEN MonsterRooms[2] ELSE MonsterRooms[1]
        x1 == RandInt(order.r, first.x, first.x + first.width - 1)
        y1 == RandInt(x1.r, first.y, first.y + first.height - 1)
        x2 == RandInt(y1.r, second.x, second.x + second.width - 1)
        y2 == RandInt(x2.r, second.y, second.y + second.height - 1)
    IN [at |-> << <<x1.v, y1.v>>, <<x2.v, y2.v>> >>, r |-> y2.r]

\* DungeonGenerator._place_features on rooms of a fixed layout: the stairs go
\* to a cell of the last room drawn from the stream
PlaceFeatures(r) ==
    LET last_room == MonsterRooms[Len(MonsterRooms)]
        stairs_x == RandInt(r, last_room.x, last_room.x + last_room.width - 1)
        stairs_y == RandInt(stairs_x.r, last_room.y,
                            last_room.y + last_room.height - 1)
    IN [stairs |-> <<stairs_x.v, stairs_y.v>>, r |-> stairs_y.r]

\* PlayScene.__init__: the stream is seeded, the floor generated, the player
\* and the monsters spawned
PlaySceneInit(config_seed, clock) ==
    LET r0 == RngSeed(SceneSeed(config_seed, clock))
        floor == PlaceFeatures(r0)
        spawn == SpawnMonsters(floor.r)
        su == [name |-> "scene", kind |-> <<"player", "monster", "monster">>,
               glyph |-> <<"@", "s", "s">>,
               behavior |-> <<"none", "chase", "chase">>,
               pos |-> <<PlayerStart, spawn.at[1], spawn.at[2]>>,
               hp |-> <<PlayerMaxHp, SlimeMaxHp, SlimeMaxHp>>, walls |-> {}]
    IN [StartState(su, None, 0) EXCEPT !.rng = spawn.r,
                                       !.level.stairs = floor.stairs]

\* PlayScene.handle_input for a game action: ignored once the game is over
PlayTurn(s, action) ==
    IF s.game_over THEN s ELSE ProcessTurn(BeginTurn(s, action))

InitDet ==
    /\ \E config_seed \in ConfigSeeds, c1 \in Clocks, c2 \in Clocks :
          /\ StartsAs(PlaySceneInit(config_seed, c1))
          /\ other = PlaySceneInit(config_seed, c2)
    /\ pc = "input"
    /\ calls = 0

\* The same key, delivered to both scenes
DetTurn ==
    /\ turn_count < MaxTurns - 1 \/ other.turn_count < MaxTurns - 1
    /\ ~game_over \/ ~other.game_over
    /\ \E action \in InputActions :
          /\ Becomes(PlayTurn(Cur, action))
          /\ other' = PlayTurn(other, action)
    /\ UNCHANGED <<pc, calls>>

NextDet == DetTurn

SpecDet == InitDet /\ [][NextDet]_vars

\* What a run shows: the floor, positions, health, engagement, posted events
Observable(s) ==
    [walls |-> s.level.walls, stairs |-> s.level.stairs, pos |-> s.pos,
     hp |-> s.hp, is_dead |-> s.is_dead,
     combat_active |-> s.combat_active,
     combat_participants |-> s.combat_participants,
     posted |-> s.obs.posted, game_over |-> s.game_over]

\* C10: two runs with the same seed and the same actions are in the same
\* world state after every turn.
C10_Determinism == Observable(Cur) = Observable(other)

----------------------------------------------------------------------------
(* Claims about single systems, checked under SpecSys *)

Moves == {obs.moves[i] : i \in 1..Len(obs.moves)}
Starts == {obs.starts[i] : i \in 1..Len(obs.starts)}

\* The move was rejected neither by the engagement lock, nor by the bounds,
\* nor by the tile
PassedEarlyChecks(h) == h.from # NoPos /\ h.free /\ h.inbounds /\ h.walkable

\* C1: a move onto a tile where another entity with Health stands alive, not
\* rejected earlier, posts exactly one AttackRequested(A, B) and one Bump(A, B)
\* for such a B, posts no MoveResolved and leaves A where it was.
C1_BumpAttacks ==
    \A h \in Moves :
        (PassedEarlyChecks(h) /\ h.alive_others # {}) =>
            /\ \E b \in h.alive_others :
                  /\ Count(h.posted, AttackRequested(h.eid, b)) = 1
                  /\ Count(h.posted, Bump(h.eid, b)) = 1
            /\ CountType(h.posted, "AttackRequested") = 1
            /\ CountType(h.posted, "Bump") = 1
            /\ CountType(h.posted, "MoveResolved") = 0
            /\ h.pos_after = h.from

C1_Witness ==
    \E h \in Moves :
        /\ PassedEarlyChecks(h) /\ h.alive_others # {}
        /\ CountType(h.posted, "AttackRequested") = 1

\* The case of the engagement lock: an open engagement, the mover one of its
\* participants, the destination farther than Chebyshev distance 1
LockedCase(h) ==
    h.was_active /\ h.participant /\ Chebyshev(h.from, h.to) > 1

\* C2: while an engagement is open a participant's move beyond Chebyshev
\* distance 1 is rejected (position kept, no MoveResolved, a Message posted),
\* and can_move_freely is true in every other case.
C2_EngagementLock ==
    \A h \in Moves :
        h.from # NoPos =>
            /\ LockedCase(h) =>
                  /\ ~h.free
                  /\ h.pos_after = h.from
                  /\ CountType(h.posted, "MoveResolved") = 0
                  /\ CountType(h.posted, "Message") = 1
            /\ ~LockedCase(h) => h.free

C2_Witness ==
    \E h \in Moves : LockedCase(h) /\ h.pos_after = h.from /\ ~h.free

\* C6: an AttackRequested(a, b) drained with no engagement active opens one
\* with participants exactly {a, b} and posts exactly one CombatStarted; drained
\* with an engagement active it adds a and b, removes nobody and posts none.
C6_CombatStart ==
    \A r \in Starts :
        /\ ~r.was_active =>
              r.now_active /\ r.after = {r.a, r.b} /\ r.started = 1
        /\ r.was_active =>
              r.now_active /\ r.after = r.before \cup {r.a, r.b} /\ r.started = 0

C6_Witness ==
    /\ \E r \in Starts : ~r.was_active /\ r.started = 1
    /\ \E r \in Starts : r.was_active /\ r.before # r.after /\ r.before # {}

----------------------------------------------------------------------------
(* Claims about the turn as PlayScene schedules it, checked under Spec *)

TurnEnded == pc = "input" /\ turn_count > 0
Posted == {obs.posted[i] : i \in 1..Len(obs.posted)}

\* C3: EntityDied(target, ...) is posted at most once per target, whatever
\* attacks the Combat system processes.
C3_DeathPostedOnce == \A e \in Entities : obs.died[e] <= 1

\* C4: every Message and DescendRequested posted during a turn, and EntityDied
\* for the player, is in the batch drained at the end of that turn.
C4_HandedToCollaborators ==
    TurnEnded =>
        \A ev \in Posted :
            (\/ ev.type \in {"Message", "DescendRequested"}
             \/ ev.type = "EntityDied" /\ ev.eid = PlayerEid)
            => InSeq(obs.final_batch, ev)

\* C5: when a attacked b in a turn and both ended it alive and adjacent, the
\* engagement is active with a and b in it once step 1 of the next turn ran.
C5_AttackOpensEngagement ==
    (pc = "movement" /\ turn_count > 0) =>
        \A pr \in obs.pending :
            combat_active /\ pr[1] \in combat_participants
                          /\ pr[2] \in combat_participants

\* C7: a non-player entity whose move is committed next to the player
\* (Manhattan distance 1) has an AttackRequested(entity, player) posted and
\* resolved in the same turn.
C7_AdjacencyAttack ==
    TurnEnded =>
        \A h \in Moves :
            (/\ h.eid # PlayerEid
             /\ InSeq(h.posted, MoveResolved(h.eid, h.from, h.to))
             /\ Manhattan(h.pos_after, h.player_pos) = 1)
            => /\ InSeq(obs.posted, AttackRequested(h.eid, PlayerEid))
               /\ <<h.eid, PlayerEid>> \in obs.resolved

\* The end-to-end scenario: player at (2,2), chase monster at (2,5), open
\* floor, the player waiting every turn
ChaseScenario == level.name = "chase" /\ obs.idle

\* C8: in the scenario the monster's Manhattan distance to the player shrinks
\* every turn or stays 1, and AttackRequested(monster, player) is posted in
\* the turn in which the monster becomes adjacent.
C8_ChaseEndToEnd ==
    (TurnEnded /\ ChaseScenario) =>
        LET before == Manhattan(obs.start_pos[2], obs.start_pos[PlayerEid])
            after == Manhattan(pos[2], pos[PlayerEid])
        IN /\ after < before \/ (before = 1 /\ after = 1)
           /\ (before > 1 /\ after = 1) =>
                  InSeq(obs.posted, AttackRequested(2, PlayerEid))

\* The distance half of C8 alone
C8_DistanceShrinks ==
    (TurnEnded /\ ChaseScenario) =>
        LET before == Manhattan(obs.start_pos[2], obs.start_pos[PlayerEid])
            after == Manhattan(pos[2], pos[PlayerEid])
        IN after < before \/ (before = 1 /\ after = 1)

\* The player's move of this turn was committed onto the tile of item `it`
SteppedOnItem(it) ==
    /\ PlayerEid \in obs.moved
    /\ level.kind[it] = "item" /\ IsItemGlyph(level.glyph[it])
    /\ obs.start_pos[it] = pos[PlayerEid]
    /\ Len(obs.start_items) < level.capacity

\* C9: when the player's move is committed onto a pickupable item with room in
\* the inventory, the Inventory step of the same turn receives the
\* MoveResolved, appends the item, removes its Position and posts ItemPicked.
C9_PickupInTurn ==
    pc = "ai" =>
        \A it \in Entities :
            SteppedOnItem(it) =>
                /\ CountType(obs.inv_batch, "MoveResolved") > 0
                /\ InSeq(inv_items, it)
                /\ pos[it] = NoPos
                /\ InSeq(obs.posted, ItemPicked(PlayerEid, it))

----------------------------------------------------------------------------
(* The entity store on its own: World as its clients can call it.  The    *)
(* store is the record world = [next_entity_id, entities, components];    *)
(* components[T][eid] is <<c>> for a stored component object c and <<>>   *)
(* (Missing, the None that get returns) when eid is no key of the map.    *)

MaxIds == 2
MaxOps == 4

StoreIds == 1..MaxIds
Missing == <<>>
ComponentTypes == {"CPosition", "CHealth"}
\* The component objects a client attaches, by type
ComponentValues(T) == IF T = "CPosition" THEN {<<0, 0>>, <<1, 0>>} ELSE {10}

\* World.__init__
NewWorld ==
    [next_entity_id |-> 1, entities |-> {},
     components |-> [T \in ComponentTypes |-> [e \in StoreIds |-> Missing]]]

\* Mutant of create_entity: the smallest id that is not live is handed out
CreateEntityReuse(w) ==
    LET eid == CHOOSE e \in 1..w.next_entity_id : e \notin w.entities
                   /\ \A f \in 1..w.next_entity_id : f \notin w.entities => e <= f
    IN [w |-> [w EXCEPT !.next_entity_id = IF eid = @ THEN @ + 1 ELSE @,
                        !.entities = @ \cup {eid}],
        eid |-> eid]

\* World.create_entity: the store after the call and the id returned
CreateEntity(w) ==
    LET eid == w.next_entity_id
    IN [w |-> [w EXCEPT !.next_entity_id = @ + 1, !.entities = @ \cup {eid}],
        eid |-> eid]

\* World.destroy_entity
DestroyEntity(w, eid) ==
    IF eid \in w.entities
    THEN [w EXCEPT !.entities = @ \ {eid},
                   !.components = [T \in ComponentTypes |->
                                      [@[T] EXCEPT ![eid] = Missing]]]
    ELSE w

\* World.add, for a component object c of type T
Add(w, eid, T, c) == [w EXCEPT !.components[T][eid] = <<c>>]

\* World.get
Get(w, eid, T) == w.components[T][eid]

\* World.has
Has(w, eid, Ts) == \A T \in Ts : w.components[T][eid] # Missing

\* World.entities_with
EntitiesWith(w, Ts) ==
    IF Ts = {} THEN w.entities
    ELSE {e \in StoreIds : \A T \in Ts : w.components[T][e] # Missing}
             \cap w.entities

\* World.entities_at, as the set of the ids in the list returned
StoreEntitiesAt(w, p, Ts) ==
    {eid \in EntitiesWith(w, {"CPosition"} \cup Ts) : Get(w, eid, "CPosition") = <<p>>}

\* The ids of content_registry.monsters and content_registry.items
MonsterRegistry == {"slime"}
ItemRegistry == {"sword", "leather_armor"}

\* World.add of a component the factories attach; the store modelled keeps
\* the maps of ComponentTypes only
AddTracked(w, eid, T, c) == IF T \in ComponentTypes THEN Add(w, eid, T, c) ELSE w

\* spawn_monster creating a blank entity for an id the registry lacks
SpawnMonsterBlank(w, monster_id, xy) ==
    LET made == CreateEntity(w)
        w1 == AddTracked(made.w, made.eid, "CPosition", xy)
        w2 == AddTracked(w1, made.eid, "CBlocker", FALSE)
        w3 == AddTracked(w2, made.eid, "CDescriptor", monster_id)
        w4 == AddTracked(w3, made.eid, "CVision", 4)
        w5 == IF monster_id \in MonsterRegistry
              THEN AddTracked(w4, made.eid, "CHealth", SlimeMaxHp) ELSE w4
    IN [w |-> w5, eid |-> made.eid, raised |-> FALSE]

\* factories.spawn_monster: the store after, the id returned, whether
\* ValueError was raised
SpawnMonster(w, monster_id, xy) ==
    IF monster_id \notin MonsterRegistry
    THEN [w |-> w, eid |-> None, raised |-> TRUE]
    ELSE LET made == CreateEntity(w)
             w1 == AddTracked(made.w, made.eid, "CPosition", xy)
             w2 == AddTracked(w1, made.eid, "CBlocker", FALSE)
             w3 == AddTracked(w2, made.eid, "CDescriptor", monster_id)
             w4 == AddTracked(w3, made.eid, "CVision", 4)
             w5 == AddTracked(w4, made.eid, "CHealth", SlimeMaxHp)
             w6 == AddTracked(w5, made.eid, "CStats", SlimeStats)
             w7 == AddTracked(w6, made.eid, "CAI", "chase")
         IN [w |-> w7, eid |-> made.eid, raised |-> FALSE]

\* factories.spawn_item
SpawnItem(w, item_id, xy) ==
    IF item_id \notin ItemRegistry
    THEN [w |-> w, eid |-> None, raised |-> TRUE]
    ELSE LET made == CreateEntity(w)
             w1 == AddTracked(made.w, made.eid, "CPosition", xy)
             w2 == AddTracked(w1, made.eid, "CDescriptor", item_id)
             w3 == AddTracked(w2, made.eid, "CBlocker", TRUE)
             w4 == AddTracked(w3, made.eid,
                              IF item_id = "sword" THEN "CWeapon" ELSE "CArmor",
                              item_id)
         IN [w |-> w4, eid |-> made.eid, raised |-> FALSE]

\* Mutant of drain_events: the queue is returned but not cleared
DrainEventsKeep(q) == [events |-> q, queue |-> q]

\* World.drain_events: the list returned and the queue left
DrainEvents(q) == [events |-> q, queue |-> <<>>]

\* The history of the calls made on the store: the ids create_entity
\* returned, the ids among them destroy_entity was called on, the events
\* posted, the batches drained
NoStoreObs ==
    [created |-> <<>>, destroyed |-> {}, posted |-> <<>>, batches |-> <<>>,
     last |-> "init", arg |-> "", raised |-> FALSE]

\* The variables of the game are not used at the level of single units
GameUnused ==
    /\ level = None /\ pos = None /\ hp = None /\ is_dead = None
    /\ inv_items = None /\ combat_active = None /\ combat_participants = None
    /\ rng = None /\ game_over = None /\ turn_count = None
    /\ message_log = None /\ other = None

GameIdle ==
    UNCHANGED <<level, pos, hp, is_dead, inv_items, combat_active,
                combat_participants, rng, game_over, turn_count, message_log,
                other>>

InitStore ==
    /\ GameUnused
    /\ world = NewWorld
    /\ event_queue = <<>>
    /\ obs = NoStoreObs
    /\ pc = "store"
    /\ calls = 0
    /\ unit = None

\* One call of a client on the store
StoreCall ==
    /\ calls < MaxOps
    /\ calls' = calls + 1
    /\ GameIdle
    /\ UNCHANGED <<pc, unit>>

StoreCreate ==
    /\ world.next_entity_id <= MaxIds
    /\ world' = CreateEntity(world).w
    /\ obs' = [obs EXCEPT !.created = Append(@, CreateEntity(world).eid),
                          !.last = "create_entity"]
    /\ StoreCall
    /\ UNCHANGED event_queue

StoreDestroy ==
    \E eid \in StoreIds :
        /\ world' = DestroyEntity(world, eid)
        /\ obs' = [obs EXCEPT !.destroyed =
                                  IF eid < world.next_entity_id
                                  THEN @ \cup {eid} ELSE @,
                              !.last = "destroy_entity"]
        /\ StoreCall
        /\ UNCHANGED event_queue

StoreAdd ==
    \E eid \in StoreIds, T \in ComponentTypes :
        \E c \in ComponentValues(T) :
            /\ world' = Add(world, eid, T, c)
            /\ obs' = [obs EXCEPT !.last = "add"]
            /\ StoreCall
            /\ UNCHANGED event_queue

\* World.post of a fresh event, tagged with the number of drains before it
StorePost ==
    LET ev == [id |-> Len(obs.posted) + 1, epoch |-> Len(obs.batches)]
    IN /\ event_queue' = Append(event_queue, ev)
       /\ obs' = [obs EXCEPT !.posted = Append(@, ev), !.last = "post"]
       /\ StoreCall
       /\ UNCHANGED world

StoreDrain ==
    /\ event_queue' = DrainEvents(event_queue).queue
    /\ obs' = [obs EXCEPT !.batches = Append(@, DrainEvents(event_queue).events),
                          !.last = "drain_events"]
    /\ StoreCall
    /\ UNCHANGED world

\* A call spawn_monster(world, monster_id, xy); a raised ValueError is caught
\* by the caller
StoreSpawnMonster ==
    \E monster_id \in MonsterRegistry \cup {"goblin"}, xy \in ComponentValues("CPosition") :
        LET out == SpawnMonster(world, monster_id, xy)
        IN /\ out.raised \/ world.next_entity_id <= MaxIds
           /\ world' = out.w
           /\ obs' = [obs EXCEPT !.created = IF out.raised THEN @ ELSE Append(@, out.eid),
                                 !.last = "spawn_monster", !.arg = monster_id,
                                 !.raised = out.raised]
           /\ StoreCall
           /\ UNCHANGED event_queue

\* A call spawn_item(world, item_id, xy)
StoreSpawnItem ==
    \E item_id \in ItemRegistry \cup {"gem"}, xy \in ComponentValues("CPosition") :
        LET out == SpawnItem(world, item_id, xy)
        IN /\ out.raised \/ world.next_entity_id <= MaxIds
           /\ world' = out.w
           /\ obs' = [obs EXCEPT !.created = IF out.raised THEN @ ELSE Append(@, out.eid),
                                 !.last = "spawn_item", !.arg = item_id,
                                 !.raised = out.raised]
           /\ StoreCall
           /\ UNCHANGED event_queue

NextStore ==
    \/ StoreCreate
    \/ StoreDestroy
    \/ StoreAdd
    \/ StorePost
    \/ StoreDrain
    \/ StoreSpawnMonster
    \/ StoreSpawnItem

SpecStore == InitStore /\ [][NextStore]_vars

TypeSets == SUBSET ComponentTypes
StorePoints == ComponentValues("CPosition")

\* The destroyed id is reported absent by every lookup and query
ReportedAbsent(id) ==
    /\ \A T \in ComponentTypes : Get(world, id, T) = Missing /\ ~Has(world, id, {T})
    /\ \A Ts \in TypeSets : id \notin EntitiesWith(world, Ts)
    /\ \A p \in StorePoints, Ts \in TypeSets : id \notin StoreEntitiesAt(world, p, Ts)

\* C11: after destroy_entity(id), whatever store operations follow, get(id, T)
\* is absent and has(id, T) false for every type, and no query returns id.
C11_DestroyedStaysAbsent == \A id \in obs.destroyed : ReportedAbsent(id)

\* The part of C11 about the queries alone
C11_DestroyedNotQueried ==
    \A id \in obs.destroyed :
        /\ \A Ts \in TypeSets : id \notin EntitiesWith(world, Ts)
        /\ \A p \in StorePoints, Ts \in TypeSets :
              id \notin StoreEntitiesAt(world, p, Ts)

\* C12: create_entity returns strictly increasing ids, so none twice, also
\* after a destroy_entity.
C12_FreshIds ==
    \A i, j \in 1..Len(obs.created) : i < j => obs.created[i] < obs.created[j]

C12_Witness ==
    /\ Len(obs.created) >= 2
    /\ obs.created[1] \in obs.destroyed
    /\ obs.created[1] \notin world.entities

\* C13: entities_with(T1..Tn), n >= 1, is exactly the set of live ids holding
\* every listed type, holds no id that is not live, and agrees with has on
\* every id.
C13_QueryIsHas ==
    \A Ts \in TypeSets \ {{}} :
        /\ EntitiesWith(world, Ts) =
              {e \in world.entities : \A T \in Ts : Get(world, e, T) # Missing}
        /\ EntitiesWith(world, Ts) \subseteq world.entities
        /\ \A e \in StoreIds : (e \in EntitiesWith(world, Ts)) <=> Has(world, e, Ts)

\* The part of C13 that does not speak of has
C13_QueryLiveHolders ==
    \A Ts \in TypeSets :
        /\ EntitiesWith(world, Ts) =
              {e \in world.entities : \A T \in Ts : Get(world, e, T) # Missing}
        /\ EntitiesWith(world, Ts) \subseteq world.entities

Flatten(bs) ==
    LET F[i \in 0..Len(bs)] == IF i = 0 THEN <<>> ELSE F[i - 1] \o bs[i]
    IN F[Len(bs)]

\* C14: drain_events returns the queued events in the order posted and leaves
\* the queue empty; an event posted after a drain (while its batch is being
\* iterated) is not in that batch and is in the next one, exactly once.
C14_DrainCopyThenClear ==
    /\ Flatten(obs.batches) \o event_queue = obs.posted
    /\ obs.last = "drain_events" => event_queue = <<>>
    /\ \A k \in 1..Len(obs.batches) :
          \A i \in 1..Len(obs.batches[k]) : obs.batches[k][i].epoch = k - 1
    /\ \A i \in 1..Len(event_queue) : event_queue[i].epoch = Len(obs.batches)

C14_Witness ==
    /\ Len(obs.batches) >= 2
    /\ obs.batches[1] # <<>>
    /\ obs.batches[2] # <<>>

----------------------------------------------------------------------------
(* Field of view: compute_visible on a grid given by its set of opaque     *)
(* cells.  unit = [opaque, ox, oy, radius, vis, done].                     *)

FovW == 4
FovH == 4
MaxRadius == 3
MaxWalls == 2

FovCells == {<<x, y>> : x \in 0..(FovW - 1), y \in 0..(FovH - 1)}

\* in_bounds(x, y)
FovInBounds(x, y) == 0 <= x /\ x < FovW /\ 0 <= y /\ y < FovH

\* opaque(x, y): out of bounds counts as opaque
Opaque(g, x, y) == ~FovInBounds(x, y) \/ <<x, y>> \in g

RECURSIVE BresenhamFrom(_, _, _, _, _, _, _, _, _)
\* The loop of _bresenham from the point (x, y) with error term err
BresenhamFrom(x, y, err, x1, y1, dx, dy, sx, sy) ==
    IF x = x1 /\ y = y1 THEN << <<x, y>> >>
    ELSE LET e2 == 2 * err
             stepx == e2 >= dy
             stepy == e2 <= dx
             err1 == err + (IF stepx THEN dy ELSE 0) + (IF stepy THEN dx ELSE 0)
         IN << <<x, y>> >> \o
            BresenhamFrom(IF stepx THEN x + sx ELSE x, IF stepy THEN y + sy ELSE y,
                          err1, x1, y1, dx, dy, sx, sy)

\* _bresenham(x0, y0, x1, y1): the points yielded, both endpoints included
Bresenham(x0, y0, x1, y1) ==
    LET dx == Abs(x1 - x0)
        sx == IF x0 < x1 THEN 1 ELSE -1
        dy == -Abs(y1 - y0)
        sy == IF y0 < y1 THEN 1 ELSE -1
    IN BresenhamFrom(x0, y0, dx + dy, x1, y1, dx, dy, sx, sy)

\* Mutant of the Euclidean clamp: the rim of the disc is left out
InClampStrict(dx, dy, radius) == dx * dx + dy * dy < radius * radius

\* not (dx * dx + dy * dy > R2)
InClamp(dx, dy, radius) == dx * dx + dy * dy <= radius * radius

RECURSIVE MarchThroughWalls(_, _, _, _, _, _)
\* Mutant of the march: an opaque tile is revealed without ending the ray
MarchThroughWalls(g, ray, i, prev, target, target_is_wall) ==
    IF i > Len(ray) THEN {}
    ELSE LET p == ray[i]
             corner_blocked == (p[1] # prev[1] /\ p[2] # prev[2])
                               /\ (Opaque(g, prev[1], p[2]) \/ Opaque(g, p[1], prev[2]))
         IN IF corner_blocked
            THEN IF p = target /\ target_is_wall THEN {p} ELSE {}
            ELSE {p} \cup MarchThroughWalls(g, ray, i + 1, p, target, target_is_wall)

RECURSIVE March(_, _, _, _, _, _)
\* The loop over the points of one ray, from index i, the last floor passed
\* being prev: the points this ray adds to vis
March(g, ray, i, prev, target, target_is_wall) ==
    IF i > Len(ray) THEN {}
    ELSE LET p == ray[i]
             corner_blocked == (p[1] # prev[1] /\ p[2] # prev[2])
                               /\ (Opaque(g, prev[1], p[2]) \/ Opaque(g, p[1], prev[2]))
         IN IF corner_blocked
            THEN IF p = target /\ target_is_wall THEN {p} ELSE {}
            ELSE IF p \in g THEN {p}
            ELSE {p} \cup March(g, ray, i + 1, p, target, target_is_wall)

\* The body of the loops over (tx, ty): what the ray to one target adds
RayVisible(g, ox, oy, tx, ty, radius) ==
    LET dx == tx - ox
        dy == ty - oy
        target_is_wall == <<tx, ty>> \in g
        stepx == IF dx > 0 THEN 1 ELSE -1
        stepy == IF dy > 0 THEN 1 ELSE -1
    IN IF <<tx, ty>> = <<ox, oy>> THEN {}
       ELSE IF ~InClamp(dx, dy, radius) THEN {}
       ELSE IF dx # 0 /\ dy # 0 /\ ~target_is_wall
               /\ (Opaque(g, ox + stepx, oy) \/ Opaque(g, ox, oy + stepy))
            THEN {}
       ELSE March(g, Bresenham(ox, oy, tx, ty), 2, <<ox, oy>>, <<tx, ty>>,
                  target_is_wall)

\* First pass of compute_visible
FirstPass(g, ox, oy, radius) ==
    LET xmin == Max2(0, ox - radius)
        xmax == Min2(FovW - 1, ox + radius)
        ymin == Max2(0, oy - radius)
        ymax == Min2(FovH - 1, oy + radius)
    IN {<<ox, oy>>} \cup
       UNION {RayVisible(g, ox, oy, tx, ty, radius) : tx \in xmin..xmax, ty \in ymin..ymax}

ADJ4 == {<<1, 0>>, <<-1, 0>>, <<0, 1>>, <<0, -1>>}

\* Mutant of the second pass: walls are revealed inside the radius only
RevealWallsInRadius(g, vis, ox, oy, radius) ==
    vis \cup {n \in FovCells : n \in g /\ InClamp(n[1] - ox, n[2] - oy, radius)
                 /\ \E f \in vis \ g, a \in ADJ4 : n = <<f[1] + a[1], f[2] + a[2]>>}

\* Second pass of compute_visible: the opaque in-bounds orthogonal neighbours
\* of the visible floors are added
RevealWalls(g, vis, ox, oy, radius) ==
    vis \cup {n \in FovCells : n \in g
                 /\ \E f \in vis \ g, a \in ADJ4 : n = <<f[1] + a[1], f[2] + a[2]>>}

\* compute_visible(grid, ox, oy, radius)
ComputeVisible(g, ox, oy, radius) ==
    IF ~FovInBounds(ox, oy) \/ radius < 0 THEN {}
    ELSE RevealWalls(g, FirstPass(g, ox, oy, radius), ox, oy, radius)

RECURSIVE WallSets(_)
\* The sets of at most k opaque cells
WallSets(k) ==
    IF k = 0 THEN {{}}
    ELSE WallSets(k - 1) \cup {S \cup {c} : S \in WallSets(k - 1), c \in FovCells}

InitFov ==
    /\ GameUnused
    /\ world = None /\ event_queue = None /\ obs = None /\ calls = None
    /\ pc = "fov"
    /\ \E g \in WallSets(MaxWalls) :
       \E o \in FovCells \ g, radius \in 0..MaxRadius :
          unit = [opaque |-> g, ox |-> o[1], oy |-> o[2], radius |-> radius,
                  vis |-> {}, done |-> FALSE]

\* The call of compute_visible
FovCompute ==
    /\ ~unit.done
    /\ unit' = [unit EXCEPT !.vis = ComputeVisible(unit.opaque, unit.ox, unit.oy,
                                                   unit.radius),
                            !.done = TRUE]
    /\ GameIdle
    /\ UNCHANGED <<world, event_queue, obs, calls, pc>>

NextFov == FovCompute

SpecFov == InitFov /\ [][NextFov]_vars

Dist2(p, ox, oy) == (p[1] - ox) * (p[1] - ox) + (p[2] - oy) * (p[2] - oy)
Disc == {p \in FovCells : Dist2(p, unit.ox, unit.oy) <= unit.radius * unit.radius}
NoWallInRadius == unit.opaque \cap Disc = {}

\* C15 as stated: with no opaque tile within radius R of the origin the
\* result is exactly the set of in-bounds points at squared distance <= R^2.
C15_ExactDisc == (unit.done /\ NoWallInRadius) => unit.vis = Disc

\* C15, amended: with no opaque tile within radius R of the origin the result
\* is exactly the in-bounds points at squared distance <= R^2 together with
\* the opaque tiles orthogonally adjacent to one of them.
C15_DiscAndAdjacentWalls ==
    (unit.done /\ NoWallInRadius) =>
        unit.vis = Disc \cup {n \in unit.opaque :
                                 \E f \in Disc : Manhattan(n, f) = 1}

C15_Witness ==
    /\ unit.done /\ NoWallInRadius /\ unit.radius >= 2
    /\ unit.vis # Disc
    /\ Cardinality(Disc) >= 9

\* C16: every in-bounds opaque orthogonal neighbour of a non-opaque tile of
\* the result is in the result, also outside radius R.
C16_CorridorWallReveal ==
    unit.done =>
        \A f \in unit.vis \ unit.opaque :
            \A n \in unit.opaque : Manhattan(n, f) = 1 => n \in unit.vis

C16_Witness ==
    /\ unit.done
    /\ \E f \in unit.vis \ unit.opaque :
          \E n \in unit.opaque :
              /\ Manhattan(n, f) = 1
              /\ Dist2(n, unit.ox, unit.oy) > unit.radius * unit.radius
              /\ n \in unit.vis

\* The rays to the targets inside the clamp, as the first pass traces them
Targets ==
    {tg \in FovCells : tg # <<unit.ox, unit.oy>>
        /\ InClamp(tg[1] - unit.ox, tg[2] - unit.oy, unit.radius)}
RayTo(tg) == Bresenham(unit.ox, unit.oy, tg[1], tg[2])

----------------------------------------------------------------------------
(* The pathfinder alone: find_path on a grid with walls and one blocking   *)
(* entity.  The grid drawn has walls on some of the four neighbours of the *)
(* goal and at most one more obstacle anywhere, a wall or a monster.       *)

PathNeighbors(c) == {n \in Cells : Manhattan(n, c) = 1}
\* Starts drawn: a corner cell and an interior cell
PathStarts == {<<0, 0>>, <<1, 1>>}

\* The grid and world find_path is handed: tiles walkable except the walls,
\* entity 2 a monster at u.monster (NoPos: not on the grid)
PathSim(u) ==
    [level |-> [walls |-> u.walls, kind |-> [e \in Entities |-> "monster"]],
     pos |-> [e \in Entities |-> IF e = 2 THEN u.monster ELSE NoPos]]

InitPath ==
    /\ GameUnused
    /\ world = None /\ event_queue = None /\ obs = None /\ calls = None
    /\ pc = "path"
    /\ \E start \in PathStarts, goal \in Cells :
       \E ring \in SUBSET PathNeighbors(goal), extra \in Cells \cup {NoPos} :
       \E as_monster \in {b \in BOOLEAN : extra # NoPos \/ ~b} :
          unit = [walls |-> ring \cup (IF as_monster THEN {} ELSE {extra} \ {NoPos}),
                  monster |-> IF as_monster THEN extra ELSE NoPos,
                  start |-> start, goal |-> goal,
                  path |-> <<>>, done |-> FALSE]

\* The call find_path(start, goal, grid, world)
PathFind ==
    /\ ~unit.done
    /\ unit' = [unit EXCEPT !.path = FindPath(PathSim(unit), unit.start, unit.goal),
                            !.done = TRUE]
    /\ GameIdle
    /\ UNCHANGED <<world, event_queue, obs, calls, pc>>

NextPath == PathFind

SpecPath == InitPath /\ [][NextPath]_vars

\* A cell a step may land on: in bounds, walkable, no blocking entity
FreeCell(c) == c \in Cells /\ c \notin unit.walls /\ c # unit.monster

RECURSIVE Flood(_, _, _)
\* Breadth-first distance from the frontier to the goal over free cells,
\* -1 when the goal is never reached
Flood(seen, frontier, d) ==
    IF unit.goal \in frontier THEN d
    ELSE IF frontier = {} THEN -1
    ELSE LET nxt == {n \in Cells \ seen :
                        FreeCell(n) /\ \E c \in frontier : Manhattan(c, n) = 1}
         IN Flood(seen \cup nxt, nxt, d + 1)

StepsToGoal == Flood({unit.start}, {unit.start}, 0)

IsRoute(path) ==
    /\ path[1] = unit.start
    /\ path[Len(path)] = unit.goal
    /\ \A i \in 1..(Len(path) - 1) :
          Manhattan(path[i], path[i + 1]) = 1 /\ FreeCell(path[i + 1])

\* C18: find_path returns a route of minimum length (start first, goal last,
\* consecutive cells orthogonally adjacent, every step onto an in-bounds,
\* walkable, unblocked cell) whenever the goal can be reached, and absent
\* exactly when it cannot; on the open grid the route between opposite
\* corners has Manhattan distance + 1 points.
C18_ShortestOrAbsent ==
    unit.done =>
        /\ LET d == StepsToGoal
           IN IF d = -1 THEN unit.path = <<>>
              ELSE IsRoute(unit.path) /\ Len(unit.path) = d + 1
        /\ (unit.walls = {} /\ unit.monster = NoPos /\ unit.start = <<0, 0>>
              /\ unit.goal = <<GridW - 1, GridH - 1>>) =>
              Len(unit.path) = GridW + GridH - 1

\* A route was found that had to go around an obstacle
C18_Witness ==
    /\ unit.done
    /\ unit.path # <<>>
    /\ Len(unit.path) > Manhattan(unit.start, unit.goal) + 1

\* The goal is enclosed by walls and no route is returned
C18_EnclosedWitness ==
    /\ unit.done
    /\ unit.start # unit.goal
    /\ PathNeighbors(unit.goal) \subseteq unit.walls
    /\ unit.path = <<>>

----------------------------------------------------------------------------
(* The rules alone: DiceRoller.roll on expression strings, and             *)
(* apply_melee_ranged.  An expression is the sequence of its characters.   *)

MaxTerms == 2

Digits == <<"0", "1", "2", "3", "4", "5", "6", "7", "8", "9">>
IsDigit(e, i) == i \in 1..Len(e) /\ \E k \in 1..10 : Digits[k] = e[i]
DigitVal(c) == (CHOOSE k \in 1..10 : Digits[k] = c) - 1

RECURSIVE RunEnd(_, _)
\* \d+ from position i, greedy: the index of the last digit of the run
RunEnd(e, i) == IF IsDigit(e, i + 1) THEN RunEnd(e, i + 1) ELSE i

RECURSIVE IntOf(_, _, _)
\* int() of the digits e[i..j]
IntOf(e, i, j) == IF i > j THEN 0 ELSE IntOf(e, i, j - 1) * 10 + DigitVal(e[j])

\* A match of (\d+)d(\d+) starting at position i
DiceMatchAt(e, i) ==
    /\ IsDigit(e, i)
    /\ LET j == RunEnd(e, i)
       IN j + 2 <= Len(e) /\ e[j + 1] = "d" /\ IsDigit(e, j + 2)

\* re.search(r"(\d+)d(\d+)", expr): the leftmost match, its two groups as ints
DiceMatch(e) ==
    LET at == {i \in 1..Len(e) : DiceMatchAt(e, i)}
    IN IF at = {} THEN [found |-> FALSE, num_dice |-> 0, die_size |-> 0]
       ELSE LET i == CHOOSE a \in at : \A b \in at : a <= b
                j == RunEnd(e, i)
            IN [found |-> TRUE, num_dice |-> IntOf(e, i, j),
                die_size |-> IntOf(e, j + 2, RunEnd(e, j + 2))]

RECURSIVE ConstMods(_, _)
\* The sum of int(match) over re.findall(r"([+-]\d+)", expr), scanning from i
ConstMods(e, i) ==
    IF i > Len(e) THEN 0
    ELSE IF e[i] \in {"+", "-"} /\ IsDigit(e, i + 1)
    THEN LET j == RunEnd(e, i + 1)
             v == IntOf(e, i + 1, j)
         IN (IF e[i] = "-" THEN -v ELSE v) + ConstMods(e, j + 1)
    ELSE ConstMods(e, i + 1)

AttrNames == {<<"S", "T", "R">>, <<"A", "G", "I">>, <<"I", "N", "T">>}

\* attrs.get(attr, 0)
AttrGet(attrs, name) == IF name \in attrs.keys THEN attrs.vals[name] ELSE 0

RECURSIVE AttrMods(_, _, _)
\* The loop over re.findall(r"([+-])(STR|AGI|INT)(?:/(\d+))?", expr)
AttrMods(e, i, attrs) ==
    IF i > Len(e) THEN 0
    ELSE IF e[i] \in {"+", "-"} /\ i + 3 <= Len(e)
            /\ SubSeq(e, i + 1, i + 3) \in AttrNames
    THEN LET name == SubSeq(e, i + 1, i + 3)
             divisor == i + 5 <= Len(e) /\ e[i + 4] = "/" /\ IsDigit(e, i + 5)
             j == IF divisor THEN RunEnd(e, i + 5) ELSE i + 3
             div == IF divisor THEN IntOf(e, i + 5, j) ELSE 0
             val == AttrGet(attrs, name)
             attr_val == IF divisor /\ div > 0 THEN val \div div ELSE val
         IN (IF e[i] = "-" THEN -attr_val ELSE attr_val) + AttrMods(e, j + 1, attrs)
    ELSE AttrMods(e, i + 1, attrs)

\* DiceRoller.roll returning the total without the clamp at zero
RollNoClamp(r, e, attrs) ==
    LET m == DiceMatch(e)
        dice == IF m.found /\ m.num_dice > 0 /\ m.die_size > 0
                THEN RollDice(r, m.num_dice, m.die_size)
                ELSE [v |-> 0, r |-> r]
        mod_total == ConstMods(e, 1) + AttrMods(e, 1, attrs)
    IN [total |-> dice.v + mod_total,
        dice_total |-> dice.v, mod_total |-> mod_total, r |-> dice.r]

\* DiceRoller.roll(expr, attrs): the total, the breakdown, the stream after
Roll(r, e, attrs) ==
    LET m == DiceMatch(e)
        dice == IF m.found /\ m.num_dice > 0 /\ m.die_size > 0
                THEN RollDice(r, m.num_dice, m.die_size)
                ELSE [v |-> 0, r |-> r]
        mod_total == ConstMods(e, 1) + AttrMods(e, 1, attrs)
        total == dice.v + mod_total
    IN [total |-> IF total < 0 THEN 0 ELSE total,
        dice_total |-> dice.v, mod_total |-> mod_total, r |-> dice.r]

\* Pieces the expressions drawn are put together from: one dice term (XdY)
\* plus optional modifiers, or modifiers alone
DiceTerms ==
    { <<"2", "d", "6">>, <<"1", "d", "1">>, <<"1", "d", "4">>, <<"0", "d", "6">> }
ModTerms ==
    { <<"+", "3">>, <<"-", "5">>, <<"+", "S", "T", "R">>,
      <<"-", "A", "G", "I", "/", "2">>, <<"+", "I", "N", "T", "/", "0">> }

RECURSIVE Exprs(_)
Exprs(k) ==
    IF k = 0 THEN {<<>>}
    ELSE IF k = 1 THEN {<<>>} \cup DiceTerms \cup ModTerms
    ELSE Exprs(k - 1) \cup {e \o t : e \in Exprs(k - 1) \ {<<>>}, t \in ModTerms}

\* The attrs mappings drawn: none given, and the player's attributes
NoAttrs == [keys |-> {}, vals |-> [n \in AttrNames |-> 0]]
PlayerAttrs ==
    [keys |-> AttrNames,
     vals |-> [n \in AttrNames |->
                 IF n = <<"S", "T", "R">> THEN PlayerStats.strength
                 ELSE IF n = <<"A", "G", "I">> THEN PlayerStats.agility
                 ELSE PlayerStats.intellect]]

\* Weapons apply_melee_ranged is called with: 1d4+STR, 4d1+3, 1d4+3, 1d4-5
DamageWeapons ==
    { UnarmedDice,
      [num_dice |-> 4, die_size |-> 1, const |-> 3, attr |-> ""],
      [num_dice |-> 1, die_size |-> 4, const |-> 3, attr |-> ""],
      [num_dice |-> 1, die_size |-> 4, const |-> -5, attr |-> ""] }

\* context.get("weapon_bonus", 0) and context.get("cover", 0) of a context
NoContext == [weapon_bonus |-> 0, cover |-> 0]
Contexts == {NoContext, [weapon_bonus |-> 2, cover |-> 0],
             [weapon_bonus |-> 0, cover |-> 4]}

\* Stat blocks to_hit is called with: the game's, and extreme ones
HitStats ==
    {PlayerStats, SlimeStats,
     [PlayerStats EXCEPT !.accuracy = 40, !.evasion = 40, !.crit_chance = 150],
     [PlayerStats EXCEPT !.accuracy = 0, !.evasion = 0, !.crit_chance = -5]}

\* to_hit without the natural 1 and natural 20 rules
ToHitCtxNoNaturals(r, att, def, ctx) ==
    LET d == RandInt(r, 1, 20)
        attack_bonus == att.accuracy + ctx.weapon_bonus
        defense_value == 10 + def.evasion + ctx.cover
        hit == d.v + attack_bonus >= defense_value
        c == RandPct(d.r)
    IN IF hit
       THEN [hit |-> TRUE, crit |-> c.v < Max2(0, Min2(100, att.crit_chance)),
             roll |-> d.v, r |-> c.r]
       ELSE [hit |-> FALSE, crit |-> FALSE, roll |-> d.v, r |-> d.r]

\* rules.attack.to_hit(attacker_stats, defender_stats, context, rng)
ToHitCtx(r, att, def, ctx) ==
    LET d == RandInt(r, 1, 20)
        attack_bonus == att.accuracy + ctx.weapon_bonus
        defense_value == 10 + def.evasion + ctx.cover
        hit == IF d.v = 1 THEN FALSE
               ELSE IF d.v = 20 THEN TRUE
               ELSE d.v + attack_bonus >= defense_value
        c == RandPct(d.r)
    IN IF hit
       THEN [hit |-> TRUE, crit |-> c.v < Max2(0, Min2(100, att.crit_chance)),
             roll |-> d.v, r |-> c.r]
       ELSE [hit |-> FALSE, crit |-> FALSE, roll |-> d.v, r |-> d.r]

NoRulesResult ==
    [op |-> "", expr |-> <<>>, attrs |-> NoAttrs, weapon |-> UnarmedDice,
     stats |-> PlayerStats, is_crit |-> FALSE,
     total |-> 0, dice_total |-> 0, mod_total |-> 0,
     final_damage |-> 0, original_damage |-> 0,
     defender |-> PlayerStats, ctx |-> NoContext,
     hit |-> FALSE, crit |-> FALSE, roll |-> 0]

InitRules ==
    /\ GameUnused
    /\ world = None /\ event_queue = None /\ obs = None /\ calls = None
    /\ pc = "rules"
    /\ \E seed \in 0..(RngMod - 1) :
          unit = [r0 |-> RngSeed(seed), r |-> RngSeed(seed), done |-> FALSE,
                  res |-> NoRulesResult]

\* A call DiceRoller(rng).roll(expr, attrs)
RulesRoll ==
    /\ ~unit.done
    /\ \E e \in Exprs(MaxTerms), attrs \in {NoAttrs, PlayerAttrs} :
          LET out == Roll(unit.r, e, attrs)
          IN unit' = [unit EXCEPT !.r = out.r, !.done = TRUE,
                         !.res = [NoRulesResult EXCEPT
                                     !.op = "roll", !.expr = e, !.attrs = attrs,
                                     !.total = out.total,
                                     !.dice_total = out.dice_total,
                                     !.mod_total = out.mod_total]]
    /\ GameIdle
    /\ UNCHANGED <<world, event_queue, obs, calls, pc>>

\* A call apply_melee_ranged(attacker_stats, weapon, None, is_crit, rng)
RulesDamage ==
    /\ ~unit.done
    /\ \E weapon \in DamageWeapons, stats \in {PlayerStats, SlimeStats},
          is_crit \in BOOLEAN :
          LET out == ApplyMeleeRanged(unit.r, stats, weapon, is_crit)
          IN unit' = [unit EXCEPT !.r = out.r, !.done = TRUE,
                         !.res = [NoRulesResult EXCEPT
                                     !.op = "damage", !.weapon = weapon,
                                     !.stats = stats, !.is_crit = is_crit,
                                     !.final_damage = out.final_damage,
                                     !.original_damage = out.original_damage]]
    /\ GameIdle
    /\ UNCHANGED <<world, event_queue, obs, calls, pc>>

\* A call to_hit(attacker_stats, defender_stats, context, rng)
RulesToHit ==
    /\ ~unit.done
    /\ \E att \in HitStats, def \in HitStats, ctx \in Contexts :
          LET out == ToHitCtx(unit.r, att, def, ctx)
          IN unit' = [unit EXCEPT !.r = out.r, !.done = TRUE,
                         !.res = [NoRulesResult EXCEPT
                                     !.op = "to_hit", !.stats = att,
                                     !.defender = def, !.ctx = ctx,
                                     !.hit = out.hit, !.crit = out.crit,
                                     !.roll = out.roll]]
    /\ GameIdle
    /\ UNCHANGED <<world, event_queue, obs, calls, pc>>

NextRules == RulesRoll \/ RulesDamage \/ RulesToHit

SpecRules == InitRules /\ [][NextRules]_vars

Rolled(e) == unit.done /\ unit.res.op = "roll" /\ unit.res.expr = e

\* C19: the total of DiceRoller.roll is never negative and is
\* max(0, dice_total + mod_total) of its breakdown; "2d6+3" gives a total in
\* 5..15, "1d1" gives 1 and "-5" gives 0.
C19_RollClamped ==
    /\ (unit.done /\ unit.res.op = "roll") =>
          /\ unit.res.total >= 0
          /\ unit.res.total = Max2(0, unit.res.dice_total + unit.res.mod_total)
    /\ Rolled(<<"2", "d", "6", "+", "3">>) => unit.res.total \in 5..15
    /\ Rolled(<<"1", "d", "1">>) => unit.res.total = 1
    /\ Rolled(<<"-", "5">>) => unit.res.total = 0

\* A roll of dice and modifiers summing below zero, returned as 0
C19_Witness ==
    /\ unit.done /\ unit.res.op = "roll"
    /\ unit.res.dice_total > 0
    /\ unit.res.dice_total + unit.res.mod_total < 0
    /\ unit.res.total = 0

\* The roll apply_melee_ranged made, from the stream it was handed
BaseRoll == DiceRoll(unit.r0, unit.res.weapon, unit.res.stats)

\* C20: on a critical hit the adjusted base is 2 * dice_total + mod_total
\* (dice 4 and modifier 3 give 11); otherwise it is the roll's total.
C20_CritDoublesDiceOnly ==
    (unit.done /\ unit.res.op = "damage") =>
        /\ unit.res.is_crit =>
              unit.res.original_damage =
                  2 * BaseRoll.dice_total + BaseRoll.mod_total
        /\ (unit.res.is_crit /\ BaseRoll.dice_total = 4 /\ BaseRoll.mod_total = 3) =>
              unit.res.original_damage = 11
        /\ ~unit.res.is_crit => unit.res.original_damage = BaseRoll.total

\* A critical hit on dice 4, modifier 3
C20_Witness ==
    /\ unit.done /\ unit.res.op = "damage" /\ unit.res.is_crit
    /\ BaseRoll.dice_total = 4 /\ BaseRoll.mod_total = 3
    /\ unit.res.original_damage = 11

AttackTotal == unit.res.roll + unit.res.stats.accuracy + unit.res.ctx.weapon_bonus
DefenseValue == 10 + unit.res.defender.evasion + unit.res.ctx.cover

\* C21: to_hit on a d20 roll of 1 misses without a crit, on a roll of 20 hits,
\* on 2..19 hits iff roll + accuracy + weapon_bonus >= 10 + evasion + cover,
\* whatever the stats; crit is never true when hit is false.
C21_ToHitRules ==
    (unit.done /\ unit.res.op = "to_hit") =>
        /\ unit.res.roll = RandInt(unit.r0, 1, 20).v
        /\ unit.res.roll = 1 => ~unit.res.hit /\ ~unit.res.crit
        /\ unit.res.roll = 20 => unit.res.hit
        /\ unit.res.roll \in 2..19 =>
              (unit.res.hit <=> AttackTotal >= DefenseValue)
        /\ unit.res.crit => unit.res.hit

\* A natural 20 that hits although the total is below the defense value
C21_Witness ==
    /\ unit.done /\ unit.res.op = "to_hit"
    /\ unit.res.roll = 20 /\ unit.res.hit
    /\ AttackTotal < DefenseValue

\* A natural 1 that misses although the total meets the defense value
C21_NaturalOneWitness ==
    /\ unit.done /\ unit.res.op = "to_hit"
    /\ unit.res.roll = 1 /\ ~unit.res.hit
    /\ AttackTotal >= DefenseValue

\* The step is a factory call with an id the registry lacks
UnknownSpawn ==
    /\ calls' = calls + 1
    /\ \/ obs'.last = "spawn_monster" /\ obs'.arg \notin MonsterRegistry
       \/ obs'.last = "spawn_item" /\ obs'.arg \notin ItemRegistry

\* C22: spawn_monster and spawn_item called with an id absent from the
\* registry signal an error and leave the world unchanged: no entity id is
\* allocated and no component is added.
C22_UnknownIdRaises ==
    [][UnknownSpawn => (obs'.raised /\ world' = world)]_vars

\* An unknown monster id was refused in a world that already holds an entity
C22_Witness ==
    /\ pc = "store"
    /\ obs.last = "spawn_monster" /\ obs.arg = "goblin" /\ obs.raised
    /\ world.entities # {}

----------------------------------------------------------------------------
(* The dungeon generator's room placement alone:                           *)
(* DungeonGenerator._generate_rooms on a width x height grid.  A room is   *)
(* the record [x, y, width, height] of core.types.Rect.                    *)

MaxGenSize == 8
MaxAttempts == 5

\* Rect.intersects without the one-tile buffer
IntersectsNoBuffer(a, b) ==
    ~ \/ a.x + a.width <= b.x
      \/ b.x + b.width <= a.x
      \/ a.y + a.height <= b.y
      \/ b.y + b.height <= a.y

\* Rect.intersects
Intersects(a, b) ==
    ~ \/ a.x + a.width + 1 < b.x
      \/ b.x + b.width + 1 < a.x
      \/ a.y + a.height + 1 < b.y
      \/ b.y + b.height + 1 < a.y

RECURSIVE GenerateRoomsLoop(_, _, _, _, _)
\* The loop `for _ in range(max_attempts)` of _generate_rooms from attempt i;
\* st is [rooms, r, rejected], rejected counting the rooms that intersected
GenerateRoomsLoop(st, i, width, height, params) ==
    IF i >= params.max_room_attempts THEN st
    ELSE IF Len(st.rooms) >= params.max_rooms THEN st
    ELSE LET room_width == RandInt(st.r, params.min_room_size, params.max_room_size)
             room_height == RandInt(room_width.r, params.min_room_size,
                                    params.max_room_size)
         IN IF room_width.v >= width - 2 \/ room_height.v >= height - 2
            THEN GenerateRoomsLoop([st EXCEPT !.r = room_height.r], i + 1,
                                   width, height, params)
            ELSE LET room_x == RandInt(room_height.r, 1,
                                       Max2(1, width - room_width.v - 1))
                     room_y == RandInt(room_x.r, 1,
                                       Max2(1, height - room_height.v - 1))
                     new_room == [x |-> room_x.v, y |-> room_y.v,
                                  width |-> room_width.v, height |-> room_height.v]
                     free == \A k \in 1..Len(st.rooms) :
                                 ~Intersects(new_room, st.rooms[k])
                 IN GenerateRoomsLoop(
                        [rooms |-> IF free THEN Append(st.rooms, new_room)
                                   ELSE st.rooms,
                         r |-> room_y.r,
                         rejected |-> IF free THEN st.rejected ELSE st.rejected + 1],
                        i + 1, width, height, params)

\* DungeonGenerator._generate_rooms(width, height, params)
GenerateRooms(r, width, height, params) ==
    GenerateRoomsLoop([rooms |-> <<>>, r |-> r, rejected |-> 0], 0,
                      width, height, params)

\* The params drawn: room sizes 1..3, up to three rooms
GenParams ==
    {[max_room_attempts |-> MaxAttempts, min_room_size |-> lo,
      max_room_size |-> hi, max_rooms |-> n] :
        lo \in 1..2, hi \in 2..3, n \in 0..3}

InitGen ==
    /\ GameUnused
    /\ world = None /\ event_queue = None /\ obs = None /\ calls = None
    /\ pc = "gen"
    /\ \E seed \in 0..(RngMod - 1), width \in 4..MaxGenSize,
          height \in 4..MaxGenSize, params \in GenParams :
          unit = [r0 |-> RngSeed(seed), width |-> width, height |-> height,
                  params |-> params, rooms |-> <<>>, rejected |-> 0,
                  done |-> FALSE, r |-> RngSeed(seed), floor |-> {},
                  stairs |-> NoPos, built |-> FALSE]

\* The call self._generate_rooms(width, height, params)
GenRooms ==
    /\ ~unit.done
    /\ LET out == GenerateRooms(unit.r0, unit.width, unit.height, unit.params)
       IN unit' = [unit EXCEPT !.rooms = out.rooms, !.rejected = out.rejected,
                               !.r = out.r, !.done = TRUE]
    /\ GameIdle
    /\ UNCHANGED <<world, event_queue, obs, calls, pc>>

\* The cells of a Rect
RectCells(room) ==
    {<<x, y>> : x \in room.x..(room.x + room.width - 1),
                y \in room.y..(room.y + room.height - 1)}

\* The in-bounds test of every carving loop
InGrid(p, width, height) == 0 <= p[1] /\ p[1] < width /\ 0 <= p[2] /\ p[2] < height

\* generate: the rooms carved out of the grid of walls; the set of floor tiles
CarveRooms(rooms, width, height) ==
    UNION {{p \in RectCells(rooms[k]) : InGrid(p, width, height)} : k \in 1..Len(rooms)}

\* Rect.center_x, Rect.center_y
Center(room) == <<room.x + room.width \div 2, room.y + room.height \div 2>>

\* _carve_horizontal_corridor
CarveHorizontalCorridor(floor, x1, x2, y, width, height) ==
    floor \cup {p \in {<<x, y>> : x \in Min2(x1, x2)..Max2(x1, x2)} :
                   InGrid(p, width, height)}

\* Mutant of _carve_vertical_corridor: nothing is carved
CarveNoVerticalCorridor(floor, x, y1, y2, width, height) == floor

\* _carve_vertical_corridor
CarveVerticalCorridor(floor, x, y1, y2, width, height) ==
    floor \cup {p \in {<<x, y>> : y \in Min2(y1, y2)..Max2(y1, y2)} :
                   InGrid(p, width, height)}

\* _carve_corridor on g = [floor, r]
CarveCorridor(g, room1, room2, width, height) ==
    LET c1 == Center(room1)
        c2 == Center(room2)
        first == RandChoice(g.r, <<TRUE, FALSE>>)
    IN IF first.v
       THEN [floor |-> CarveVerticalCorridor(
                           CarveHorizontalCorridor(g.floor, c1[1], c2[1], c1[2],
                                                   width, height),
                           c2[1], c1[2], c2[2], width, height),
             r |-> first.r]
       ELSE [floor |-> CarveHorizontalCorridor(
                           CarveVerticalCorridor(g.floor, c1[1], c1[2], c2[2],
                                                 width, height),
                           c1[1], c2[1], c2[2], width, height),
             r |-> first.r]

RECURSIVE ConnectConsecutive(_, _, _, _, _)
\* for i in range(len(rooms) - 1): rooms[i] to rooms[i + 1]
ConnectConsecutive(g, rooms, i, width, height) ==
    IF i >= Len(rooms) THEN g
    ELSE ConnectConsecutive(CarveCorridor(g, rooms[i], rooms[i + 1], width, height),
                            rooms, i + 1, width, height)

RECURSIVE ConnectExtra(_, _, _, _, _)
\* for _ in range(max(0, len(rooms) // 3)): two rooms chosen, joined if different
ConnectExtra(g, rooms, n, width, height) ==
    IF n <= 0 THEN g
    ELSE LET room1 == RandChoice(g.r, [k \in 1..Len(rooms) |-> k])
             room2 == RandChoice(room1.r, [k \in 1..Len(rooms) |-> k])
             g1 == [g EXCEPT !.r = room2.r]
         IN ConnectExtra(IF room1.v # room2.v
                         THEN CarveCorridor(g1, rooms[room1.v], rooms[room2.v],
                                            width, height)
                         ELSE g1,
                         rooms, n - 1, width, height)

\* DungeonGenerator._connect_rooms
ConnectRooms(g, rooms, width, height) ==
    IF Len(rooms) < 2 THEN g
    ELSE LET g1 == ConnectConsecutive(g, rooms, 1, width, height)
             g2 == IF Len(rooms) > 2
                   THEN CarveCorridor(g1, rooms[Len(rooms)], rooms[1], width, height)
                   ELSE g1
         IN ConnectExtra(g2, rooms, Len(rooms) \div 3, width, height)

\* _place_features: the stairs tile in the last room (Tile.stairs_down is
\* walkable and replaces a floor tile); the treasures are positions in the
\* returned placements only and leave the grid alone
PlaceStairs(g, rooms) ==
    IF rooms = <<>> THEN [floor |-> g.floor, r |-> g.r, stairs |-> NoPos]
    ELSE LET last_room == rooms[Len(rooms)]
             stairs_x == RandInt(g.r, last_room.x, last_room.x + last_room.width - 1)
             stairs_y == RandInt(stairs_x.r, last_room.y,
                                 last_room.y + last_room.height - 1)
         IN [floor |-> g.floor \cup {<<stairs_x.v, stairs_y.v>>}, r |-> stairs_y.r,
             stairs |-> <<stairs_x.v, stairs_y.v>>]

\* The rest of generate after _generate_rooms: carve, connect, place
GenBuild ==
    /\ unit.done /\ ~unit.built
    /\ LET g0 == [floor |-> CarveRooms(unit.rooms, unit.width, unit.height),
                  r |-> unit.r]
           g == PlaceStairs(ConnectRooms(g0, unit.rooms, unit.width, unit.height),
                            unit.rooms)
       IN unit' = [unit EXCEPT !.floor = g.floor, !.r = g.r, !.stairs = g.stairs,
                               !.built = TRUE]
    /\ GameIdle
    /\ UNCHANGED <<world, event_queue, obs, calls, pc>>

NextGen == GenRooms \/ GenBuild

SpecGen == InitGen /\ [][NextGen]_vars

RoomCells(room) ==
    {<<x, y>> : x \in room.x..(room.x + room.width - 1),
                y \in room.y..(room.y + room.height - 1)}

\* C23: no two accepted rooms overlap or touch, also when each is widened by
\* the one-tile buffer (any two cells of different rooms are at least 3
\* apart in x or in y); there are at most max_rooms rooms; every room lies
\* inside the grid with a border of at least one tile.
C23_RoomsApartAndInside ==
    unit.done =>
        /\ \A i, j \in 1..Len(unit.rooms) :
              i < j => \A p \in RoomCells(unit.rooms[i]),
                          q \in RoomCells(unit.rooms[j]) : Chebyshev(p, q) >= 3
        /\ Len(unit.rooms) <= unit.params.max_rooms
        /\ \A i \in 1..Len(unit.rooms) :
              \A p \in RoomCells(unit.rooms[i]) :
                  /\ 1 <= p[1] /\ p[1] <= unit.width - 2
                  /\ 1 <= p[2] /\ p[2] <= unit.height - 2

\* Two rooms were accepted after a room that intersected one was refused
C23_Witness ==
    /\ pc = "gen" /\ unit.done
    /\ Len(unit.rooms) = 2
    /\ unit.rejected >= 1

----------------------------------------------------------------------------
(* Claims about the queue across one process call, checked under SpecSys *)

RECURSIVE IsSubseq(_, _)
\* a is b with some elements left out
IsSubseq(a, b) ==
    IF a = <<>> THEN TRUE
    ELSE IF b = <<>> THEN FALSE
    ELSE IF Head(a) = Head(b) THEN IsSubseq(Tail(a), Tail(b))
    ELSE IsSubseq(a, Tail(b))

NotMoveRequested(ev) == ev.type # "MoveRequested"

\* The queue after is the drained batch, whole and in order, behind the
\* CombatStarted and CombatEnded events the call posted
KeptBehindCombatEvents ==
    \E k \in 0..Len(event_queue') :
        /\ SubSeq(event_queue', k + 1, Len(event_queue')) = event_queue
        /\ \A i \in 1..k : event_queue'[i].type \in {"CombatStarted", "CombatEnded"}

\* C24: CombatStateSystem.process leaves every drained event in the queue in
\* its original order (plus any CombatStarted/CombatEnded); after
\* MovementSystem.process the queue holds every drained event other than
\* MoveRequested in its original order and no MoveRequested.
C24_ObserversKeepEvents ==
    [][/\ SysCombatState => KeptBehindCombatEvents
       /\ SysMovement =>
             /\ IsSubseq(SelectSeq(event_queue, NotMoveRequested), event_queue')
             /\ CountType(event_queue', "MoveRequested") = 0]_vars

\* The combat-state system opened an engagement and left a MoveRequested and
\* the AttackRequested it read in the queue
C24_Witness ==
    /\ pc = "client"
    /\ Len(event_queue) >= 3
    /\ event_queue[1].type = "CombatStarted"
    /\ CountType(event_queue, "MoveRequested") >= 1
    /\ CountType(event_queue, "AttackRequested") >= 1

----------------------------------------------------------------------------
(* Claims about rejected moves, checked under Spec *)

Rejected(m) == m.from # NoPos /\ (~m.inbounds \/ ~m.walkable)
PostedTypes(m) == {m.posted[i].type : i \in 1..Len(m.posted)}

\* C25: a MoveRequested whose destination is outside the grid or on a
\* non-walkable tile leaves the position unchanged, posts no MoveResolved,
\* Bump or AttackRequested, and posts a Message.
C25_RejectedMoveMessage ==
    \A m \in Moves :
        Rejected(m) =>
            /\ m.pos_after = m.from
            /\ PostedTypes(m) \cap {"MoveResolved", "Bump", "AttackRequested"} = {}
            /\ "Message" \in PostedTypes(m)

\* The part of C25 that does not speak of the Message
C25_RejectedMoveStays ==
    \A m \in Moves :
        Rejected(m) =>
            /\ m.pos_after = m.from
            /\ PostedTypes(m) \cap {"MoveResolved", "Bump", "AttackRequested"} = {}

\* C25 for destinations outside the grid alone
C25_OutOfBoundsMessage ==
    \A m \in Moves :
        (m.from # NoPos /\ ~m.inbounds) =>
            /\ m.pos_after = m.from
            /\ PostedTypes(m) = {"Message"}

----------------------------------------------------------------------------
(* Claims about the engagement, checked under SpecSys *)

Deaths == {obs.deaths[i] : i \in 1..Len(obs.deaths)}

\* Two of the participants left after the death are alive and within
\* Chebyshev distance 1 of one another
LivingPairRemains(d) ==
    LET living == {e \in d.before \ {d.eid} :
                      d.pos[e] # NoPos /\ HasHealth(Cur, e) /\ ~d.is_dead[e]}
    IN \E e1, e2 \in living : e1 # e2 /\ Chebyshev(d.pos[e1], d.pos[e2]) <= 1

C26_StaysOpenWitness ==
    \E d \in Deaths : d.eid \in d.before /\ d.now_active /\ Cardinality(d.after) >= 2

\* Participant e is within Chebyshev distance 1 of another participant
NearOther(e, participants, at) ==
    \E o \in participants \ {e} : Chebyshev(at[e], at[o]) <= 1

\* C27: while an engagement stays open, no accepted move takes a participant
\* that was within Chebyshev distance 1 of another participant to a distance
\* greater than 1 from all other participants.
C27_NoFleeing ==
    [][\A e \in Entities :
          (/\ combat_active /\ combat_active'
           /\ e \in combat_participants /\ e \in combat_participants'
           /\ NearOther(e, combat_participants, pos))
          => NearOther(e, combat_participants', pos')]_vars

\* The lock as the code applies it: while an engagement is open no single
\* committed move of a participant is longer than Chebyshev distance 1
C27_SingleStepOnly ==
    [][\A e \in Entities :
          (combat_active /\ e \in combat_participants /\ pos[e] # NoPos
           /\ pos'[e] # NoPos)
          => Chebyshev(pos[e], pos'[e]) <= 1]_vars

----------------------------------------------------------------------------
(* Claims about Health, checked under Spec *)

\* CHealth.max_hp as the factories set it
MaxHp(e) == IF level.kind[e] = "player" THEN PlayerMaxHp ELSE SlimeMaxHp
WithHealth == {e \in Entities : HasHealth(Cur, e)}
Attacked == {pr[2] : pr \in obs.resolved}

HealthInRange ==
    /\ \A e \in WithHealth : 0 <= hp[e] /\ hp[e] <= MaxHp(e)
    /\ \A e \in Attacked : is_dead[e] <=> hp[e] = 0

HealthMonotone ==
    \A e \in WithHealth : hp'[e] <= hp[e] /\ (is_dead[e] => is_dead'[e])

\* C28: every Health has 0 <= hp <= max_hp; once the Combat system has
\* processed an attack on an entity, is_dead holds iff hp = 0; hp never
\* increases and an entity marked dead stays dead.
C28_HealthBounds == [](HealthInRange) /\ [][HealthMonotone]_vars

\* Of the entities attacked in the turn one is dead with hp 0 and one lives
C28_Witness ==
    /\ pc = "input"
    /\ \E e \in Attacked : is_dead[e] /\ hp[e] = 0
    /\ \E e \in Attacked : ~is_dead[e] /\ 0 < hp[e] /\ hp[e] < SlimeMaxHp

----------------------------------------------------------------------------
(* Claims about the chase AI, checked under Spec *)

Chases == {obs.ai[i] : i \in 1..Len(obs.ai)}

\* C29: a living chase monster at Manhattan distance exactly 1 from the
\* player posts AttackRequested(monster, player) and no move; at Manhattan
\* distance 2 to 5 it posts a MoveRequested and no AttackRequested.
C29_ChaseByManhattan ==
    \A a \in Chases :
        LET d == Manhattan(a.from, a.player_pos)
        IN /\ d = 1 => a.posted = <<AttackRequested(a.eid, PlayerEid)>>
           /\ d \in 2..ChaseRange =>
                 Len(a.posted) = 1 /\ a.posted[1].type = "MoveRequested"
                 /\ a.posted[1].eid = a.eid

\* The rule the code applies, by Chebyshev distance
C29_ChaseByChebyshev ==
    \A a \in Chases :
        LET d == Chebyshev(a.from, a.player_pos)
        IN /\ d = 1 => a.posted = <<AttackRequested(a.eid, PlayerEid)>>
           /\ d \in 2..ChaseRange =>
                 Len(a.posted) = 1 /\ a.posted[1].type = "MoveRequested"
                 /\ a.posted[1].eid = a.eid

\* The state the chase AI decided in
SeenBy(a) == [Cur EXCEPT !.pos = a.pos]

RECURSIVE WalkFlood(_, _, _)
\* Whether the player's cell is reached from the frontier by 4-directional
\* steps over walkable cells no other entity blocks
WalkFlood(a, seen, frontier) ==
    IF a.player_pos \in frontier THEN TRUE
    ELSE IF frontier = {} THEN FALSE
    ELSE LET nxt == {n \in Cells \ seen :
                        /\ n \notin level.walls
                        /\ \A e \in Entities \ {PlayerEid} :
                              a.pos[e] = n => level.kind[e] = "item"
                        /\ \E c \in frontier : Manhattan(c, n) = 1}
         IN WalkFlood(a, seen \cup nxt, nxt)

RouteExists(a) == WalkFlood(a, {a.from}, {a.from})

NotAdjacentInRange(a) == Chebyshev(a.from, a.player_pos) \in 2..ChaseRange

\* C30: for a chase monster in range and not adjacent, whenever a
\* 4-directional walkable route to the player exists find_path returns a path
\* and the MoveRequested posted goes to its second cell, orthogonally
\* adjacent to the monster; the greedy step is taken only without a route.
C30_ChaseFollowsPath ==
    \A a \in Chases :
        (NotAdjacentInRange(a) /\ RouteExists(a)) =>
            LET path == FindPath(SeenBy(a), a.from, a.player_pos)
            IN /\ Len(path) > 1
               /\ a.posted = <<MoveRequested(a.eid, path[2])>>
               /\ Manhattan(a.from, path[2]) = 1

\* The pathfinder call the chase AI makes finds no path to the player
C30_PathNeverFound ==
    \A a \in Chases :
        NotAdjacentInRange(a) =>
            FindPath(SeenBy(a), a.from, a.player_pos) = <<>>

----------------------------------------------------------------------------
(* FOVSystem over the turns of PlayScene: the viewers stand on the grid of *)
(* the field-of-view section.  unit = [opaque, at, radius, has, visible,   *)
(* seen, moved, turns].                                                    *)

Viewers == {1, 2}

\* Mutant of _update_fov: the cumulative set is overwritten, not merged
UpdateFovForgetful(u, eid) ==
    IF u.at[eid] = NoPos THEN u
    ELSE LET visible_tiles == ComputeVisible(u.opaque, u.at[eid][1], u.at[eid][2],
                                             u.radius[eid])
         IN [u EXCEPT !.has[eid] = TRUE,
                      !.seen[eid] = visible_tiles,
                      !.visible[eid] = visible_tiles]

\* FOVSystem._update_fov(eid)
UpdateFov(u, eid) ==
    IF u.at[eid] = NoPos THEN u
    ELSE LET visible_tiles == ComputeVisible(u.opaque, u.at[eid][1], u.at[eid][2],
                                             u.radius[eid])
         IN [u EXCEPT !.has[eid] = TRUE,
                      !.seen[eid] = @ \cup visible_tiles,
                      !.visible[eid] = visible_tiles]

\* FOVSystem.process: every entity with CVision and CPosition, in id order
FovSystemProcess(u) == UpdateFov(UpdateFov(u, 1), 2)

VisStarts == {<<0, 0>>, <<1, 1>>}

\* PlayScene.__init__: the player's field of view is computed once; the
\* second viewer has no CVisible yet, and may have no CPosition
InitVis ==
    /\ GameUnused
    /\ world = None /\ event_queue = None /\ obs = None /\ calls = None
    /\ pc = "vis"
    /\ \E g \in WallSets(1) :
       \E o \in VisStarts \ g, r \in 1..(MaxRadius - 1),
          o2 \in {NoPos, <<FovW - 1, FovH - 1>>} \ g :
          unit = UpdateFov([opaque |-> g,
                            at |-> <<o, o2>>,
                            radius |-> <<r, r>>,
                            has |-> <<FALSE, FALSE>>,
                            visible |-> <<{}, {}>>,
                            seen |-> <<{}, {}>>,
                            moved |-> FALSE,
                            turns |-> 0], 1)

\* The movement of one turn: a viewer's committed move, one tile per axis at
\* most, onto a tile that is in bounds and not a wall
VisMove ==
    /\ pc = "vis"
    /\ ~unit.moved
    /\ unit.turns < MaxTurns - 2
    /\ \E eid \in Viewers, d \in (-1..1) \X (-1..1) :
          LET to == <<unit.at[eid][1] + d[1], unit.at[eid][2] + d[2]>>
          IN /\ unit.at[eid] # NoPos
             /\ d # <<0, 0>>
             /\ to \in FovCells \ unit.opaque
             /\ unit' = [unit EXCEPT !.at[eid] = to, !.moved = TRUE]
    /\ GameIdle
    /\ UNCHANGED <<world, event_queue, obs, calls, pc>>

\* The end of PlayScene._process_turn: fov_system.process() after the movement
VisFov ==
    /\ pc = "vis"
    /\ unit.turns < MaxTurns - 2
    /\ unit' = [FovSystemProcess(unit) EXCEPT !.moved = FALSE, !.turns = @ + 1]
    /\ GameIdle
    /\ UNCHANGED <<world, event_queue, obs, calls, pc>>

NextVis == VisMove \/ VisFov

SpecVis == InitVis /\ [][NextVis]_vars

VisTurnEnded == unit.turns > 0 /\ ~unit.moved

VisibleCurrent ==
    VisTurnEnded =>
        \A eid \in Viewers :
            unit.at[eid] # NoPos =>
                /\ unit.visible[eid] \subseteq unit.seen[eid]
                /\ unit.visible[eid] =
                       ComputeVisible(unit.opaque, unit.at[eid][1], unit.at[eid][2],
                                      unit.radius[eid])

SeenKept == \A eid \in Viewers : unit.seen[eid] \subseteq unit'.seen[eid]

\* C31: for every entity with Vision and Position, seen_tiles never loses a
\* point over the turns, and at the end of every turn visible_tiles is a
\* subset of seen_tiles and equals compute_visible at the position the entity
\* holds after that turn's movement.
C31_SeenGrowsVisibleCurrent == [](VisibleCurrent) /\ [][SeenKept]_vars

\* A turn has ended after a move and the player remembers tiles it no longer sees
C31_Witness ==
    /\ pc = "vis" /\ VisTurnEnded /\ unit.turns >= 2
    /\ unit.visible[1] # unit.seen[1]
    /\ unit.visible[1] \subseteq unit.seen[1]
    /\ unit.has[2] /\ unit.visible[2] # {}

----------------------------------------------------------------------------
(* SpecInv: the Inventory system driven by a client.  The player stands   *)
(* next to two items; MoveResolved events are posted to the queue and     *)
(* InventorySystem.process is called on it.                               *)

MaxCapacity == 2

ItemSpots == {<<1, 2>>, <<2, 1>>}

\* A floor with the player and two spawned items, some of them already held
InvStart(g2, g3, p2, p3, cap) ==
    LET su == [name |-> "items", kind |-> <<"player", "item", "item">>,
               glyph |-> <<"@", g2, g3>>,
               behavior |-> <<"none", "none", "none">>,
               pos |-> << <<1, 1>>, p2, p3 >>,
               hp |-> <<PlayerMaxHp, 0, 0>>, walls |-> {}]
        s == StartState(su, None, 3)
    IN [s EXCEPT !.level.capacity = cap,
                 !.inv_items = SortedSeq({e \in {2, 3} : su.pos[e] = NoPos})]

InitInv ==
    /\ \E g2 \in {"item", "/"}, g3 \in {"item", "Item"},
          p2 \in ItemSpots \cup {NoPos}, p3 \in ItemSpots \cup {NoPos},
          cap \in 0..MaxCapacity :
          /\ Cardinality({p \in {2, 3} : <<p2, p3>>[p - 1] = NoPos}) <= cap
          /\ StartsAs(InvStart(g2, g3, p2, p3, cap))
    /\ pc = "inv_client"
    /\ calls = 0
    /\ other = 0

\* A MoveResolved as the Movement system posts it, put in the queue
InvPostResolved ==
    /\ pc = "inv_client"
    /\ \E e \in {1, 2}, to \in ItemSpots : ClientPost(MoveResolved(e, <<1, 1>>, to))

InvProcess ==
    /\ pc = "inv_client"
    /\ SysCall(InventoryProcess(Cur))

NextInv == InvPostResolved \/ InvProcess

SpecInv == InitInv /\ [][NextInv]_vars

Pickups == {obs.pickups[i] : i \in 1..Len(obs.pickups)}
Held(q) == {q[i] : i \in 1..Len(q)}
Once(q, x) == Cardinality({i \in 1..Len(q) : q[i] = x}) = 1

\* The items a handled MoveResolved left on its tile
LeftOnTile(p) ==
    {e \in Entities : p.pos_after[e] = p.to /\ IsItemGlyph(level.glyph[e])}

FullMessage(p) ==
    /\ Len(p.posted) > 0
    /\ p.posted[Len(p.posted)] = Message("Inventory full!")
    /\ CountType(p.posted, "Message") - CountType(p.posted, "ItemPicked") = 1

\* C32: after the Inventory system handles a MoveResolved the inventory holds
\* at most capacity items; every picked item has lost its Position and is in
\* the inventory exactly once; at capacity with an item still on the tile a
\* Message is posted and nothing further is picked for that event.
C32_PickupRespectsCapacity ==
    /\ pc = "inv_client" => Len(inv_items) <= level.capacity
    /\ \A p \in Pickups :
          HasInventory(Cur, p.eid) =>
              /\ Len(p.after) <= level.capacity
              /\ SubSeq(p.after, 1, Len(p.before)) = p.before
              /\ \A e \in Held(p.after) \ Held(p.before) :
                    /\ p.pos_before[e] = p.to
                    /\ p.pos_after[e] = NoPos
                    /\ Once(p.after, e)
              /\ CountType(p.posted, "ItemPicked") = Len(p.after) - Len(p.before)
              /\ LeftOnTile(p) # {} =>
                    (Len(p.after) = level.capacity /\ FullMessage(p))
              /\ LeftOnTile(p) = {} =>
                    ~InSeq(p.posted, Message("Inventory full!"))

\* An event picked one item, filled the inventory and left the other on the tile
C32_Witness ==
    /\ pc = "inv_client"
    /\ \E p \in Pickups :
          /\ Len(p.after) = Len(p.before) + 1
          /\ LeftOnTile(p) # {}
          /\ FullMessage(p)

----------------------------------------------------------------------------
(* Claims about the dead and the living over the turns, checked under Spec *)

Monsters == {e \in Entities : level.kind[e] = "monster"}

\* The events the step posts
NewlyPosted ==
    IF pc = "input" THEN obs'.posted
    ELSE SeqSuffix(obs'.posted, Len(obs.posted))

ActsIn(q, e) ==
    \E i \in 1..Len(q) :
        q[i].type \in {"MoveRequested", "AttackRequested"} /\ q[i].eid = e

DeadStayQuiet == \A m \in Monsters : is_dead[m] => ~ActsIn(NewlyPosted, m)

\* C33: a monster whose hp reached 0 from the player's attack in the player
\* phase posts no MoveRequested and no AttackRequested in that turn's monster
\* phase, nor in any later turn.
C33_DeadMonsterQuiet == [][DeadStayQuiet]_vars

\* The AI phase has run in the turn in which the player killed a chase monster
C33_Witness ==
    /\ pc = "monster_movement"
    /\ \E m \in Monsters :
          /\ is_dead[m] /\ hp[m] = 0 /\ obs.died[m] > 0
          /\ <<PlayerEid, m>> \in obs.resolved
          /\ level.behavior[m] = "chase"
          /\ pos[m] # NoPos
          /\ Chebyshev(pos[m], pos[PlayerEid]) = 1

\* The AI phase has run in a turn after the one of the kill
C33_LaterTurnWitness ==
    /\ pc = "monster_movement"
    /\ \E m \in Monsters :
          /\ is_dead[m] /\ obs.died[m] > 0
          /\ \A e \in Entities : <<e, m>> \notin obs.resolved
          /\ level.behavior[m] = "chase"
          /\ pos[m] # NoPos
          /\ Chebyshev(pos[m], pos[PlayerEid]) <= ChaseRange

Living == {e \in Entities : HasHealth(Cur, e) /\ ~is_dead[e] /\ pos[e] # NoPos}

\* C34: no two living entities with Health ever occupy the same tile, after
\* every Movement step of every turn, also when several monsters request the
\* same destination in one monster phase.
C34_OneLivingPerTile ==
    \A a \in Living, b \in Living : a # b => pos[a] # pos[b]

\* A monster phase in which two monsters asked for one tile: the first took
\* it and the second stayed where it was
C34_Witness ==
    /\ pc = "monster_combat"
    /\ \E i \in 1..Len(obs.moves), j \in 1..Len(obs.moves) :
          /\ i < j
          /\ obs.moves[i].eid # obs.moves[j].eid
          /\ obs.moves[i].to = obs.moves[j].to
          /\ obs.moves[i].pos_after = obs.moves[i].to
          /\ obs.moves[j].pos_after = obs.moves[j].from
          /\ obs.moves[j].alive_others = {obs.moves[i].eid}

Placed == {e \in Entities : pos[e] # NoPos}
MoveRecords == {obs.moves[i] : i \in 1..Len(obs.moves)}

\* C35: every entity with a Position stands on an in-bounds, walkable tile
\* after any sequence of turns, and a committed move changes the position by
\* at most one tile per axis.
C35_OnFloorOneStep ==
    /\ \A e \in Placed : InBounds(pos[e]) /\ pos[e] \notin level.walls
    /\ \A m \in MoveRecords :
          m.from # NoPos => Chebyshev(m.from, m.pos_after) <= 1

\* A monster phase in which a wandering monster asked for a wall or for a
\* tile outside the grid and stayed, after the player's committed move
C35_Witness ==
    /\ pc = "monster_combat"
    /\ PlayerEid \in obs.moved
    /\ \E m \in MoveRecords :
          /\ level.behavior[m.eid] = "wander"
          /\ m.inbounds /\ ~m.walkable
          /\ m.pos_after = m.from

\* A monster's move out of the grid was turned down
C35_OutsideWitness ==
    /\ pc = "monster_combat"
    /\ \E m \in MoveRecords : m.eid # PlayerEid /\ ~m.inbounds /\ m.pos_after = m.from

----------------------------------------------------------------------------
(* Claims about the engagement state, checked under SpecSys *)

\* C36: in every reachable state of CombatStateSystem, combat_active implies
\* at least two participants and not combat_active implies no participant.
C36_EngagementConsistent ==
    /\ combat_active => Cardinality(combat_participants) >= 2
    /\ ~combat_active => combat_participants = {}

\* An engagement of three lost one participant and stays open with two, and
\* an engagement was closed by a death
C36_Witness ==
    /\ pc = "client"
    /\ \E d \in Deaths :
          /\ d.was_active /\ Cardinality(d.before) = 3
          /\ d.now_active /\ Cardinality(d.after) = 2
          /\ combat_active

C36_ClosedWitness ==
    /\ pc = "client"
    /\ ~combat_active /\ combat_participants = {}
    /\ \E d \in Deaths : d.was_active /\ d.ended > 0

----------------------------------------------------------------------------
(* Claims about who attacks whom *)

Attacks == {obs.attacks[i] : i \in 1..Len(obs.attacks)}

Harms(q) == \E i \in 1..Len(q) : q[i].type \in {"DamageApplied", "EntityDied"}

\* C37: a dead entity never deals damage: no DamageApplied or EntityDied is
\* posted for an attack whose attacker was already marked dead when the
\* Combat system resolved it, also when it was killed earlier in the same
\* Combat step.
C37_DeadDealNoDamage ==
    \A a \in Attacks : a.attacker_dead => ~Harms(a.posted)

\* C38: every AttackRequested resolved in the monster phase has the player as
\* its target: an AI-controlled entity never attacks or damages another one.
C38_MonstersAttackPlayerOnly ==
    pc = "fov" => \A a \in Attacks : a.target = PlayerEid

\* What the AI itself posts: every AttackRequested of a chase decision is
\* aimed at the player
C38_AIAimsAtPlayer ==
    \A a \in Chases : \A i \in 1..Len(a.posted) :
        a.posted[i].type = "AttackRequested" => a.posted[i].target = PlayerEid

----------------------------------------------------------------------------
(* Claims about the generated floor, checked under SpecGen *)

RECURSIVE FloorFlood(_, _)
\* The floor tiles reached from the frontier by 4-directional moves
FloorFlood(seen, frontier) ==
    IF frontier = {} THEN seen
    ELSE LET nxt == {n \in unit.floor \ seen :
                        \E c \in frontier : Manhattan(c, n) = 1}
         IN FloorFlood(seen \cup nxt, nxt)

ReachedFromSpawn == FloorFlood({Center(unit.rooms[1])}, {Center(unit.rooms[1])})

\* C39: in every generated dungeon with at least two accepted rooms all room
\* tiles are mutually reachable by 4-directional moves over walkable tiles,
\* and so is the stairs-down tile of the last room from the first room, where
\* the player spawns.
C39_RoomsConnected ==
    (unit.built /\ Len(unit.rooms) >= 2) =>
        /\ \A k \in 1..Len(unit.rooms) : RectCells(unit.rooms[k]) \subseteq ReachedFromSpawn
        /\ unit.stairs \in RectCells(unit.rooms[Len(unit.rooms)])
        /\ unit.stairs \in ReachedFromSpawn

\* Three rooms were joined, two of them by a corridor with a bend
C39_Witness ==
    /\ pc = "gen" /\ unit.built
    /\ Len(unit.rooms) = 3
    /\ Center(unit.rooms[1])[1] # Center(unit.rooms[2])[1]
    /\ Center(unit.rooms[1])[2] # Center(unit.rooms[2])[2]
    /\ unit.floor # CarveRooms(unit.rooms, unit.width, unit.height)

====
